---- MODULE Spec2Model ----
(***************************************************************************)
(* Title normalisation engine of Mod-Alchemist                             *)
(* (scripts/KeatonTheBot/format_repo3.py): sanitize_name, the lexical      *)
(* classifier and title_case_preserve_numbers, run as clean_title does.    *)
(*                                                                         *)
(* A Python str is a sequence of one-character strings.  A character       *)
(* outside ASCII is a named token (E_ACUTE, EN_DASH, ...), and so are the  *)
(* backtick (BACKTICK) and the double quote (DQUOTE).                      *)
(***************************************************************************)
EXTENDS Integers, Sequences, FiniteSets, TLC

\* ------------------------------------------------------------------------
\* Bounds of the explored inputs

\* longest title, in words, built from Vocabulary
MaxWords == 3
\* longest raw name built character by character from Alphabet
MaxLen == 3
\* longest title, in words, built from MarkerVocabulary
MaxLongWords == 4
\* longest raw name over HyphenAlphabet given to sanitize_name alone
MaxHyphenLen == 7
\* longest raw name over QuoteAlphabet given to sanitize_name alone
MaxQuoteLen == 3
\* longest token given to is_roman_numeral alone
MaxTokenLen == 4
\* deepest relative path, in folders, given to get_game_name_and_mod_name
MaxDepth == 3
\* most files in the folder the Fl4sh9174 formatter is run on
MaxFiles == 3
\* most files in the folder a copying formatter is run on
MaxCopied == 2
\* most runs of a formatter on the same folder
MaxRuns == 2
\* most lines of a .pchtxt file
MaxLines == 3
\* most times a file is patched with the same arguments
MaxPatches == 2
\* most content entries of cnmts.json
MaxEntries == 2
\* most archives handed to process_rar in a run
MaxTasks == 2

\* ------------------------------------------------------------------------
\* Characters and the str methods the code relies on

LowerLetters ==
  <<"a","b","c","d","e","f","g","h","i","j","k","l","m",
    "n","o","p","q","r","s","t","u","v","w","x","y","z">>

UpperLetters ==
  <<"A","B","C","D","E","F","G","H","I","J","K","L","M",
    "N","O","P","Q","R","S","T","U","V","W","X","Y","Z">>

\* characters with no ASCII encoding
NonAscii ==
  {"E_ACUTE", "COMB_ACUTE", "EN_DASH", "EM_DASH", "RSQUO", "NBSP", "FW_APOS"}

\* the value standing for a raised IndexError (no Python str equals it)
Raised == <<"IndexError">>

UpperChar(c) ==
  IF \E i \in 1..26 : LowerLetters[i] = c
    THEN UpperLetters[CHOOSE i \in 1..26 : LowerLetters[i] = c]
    ELSE c

LowerChar(c) ==
  IF \E i \in 1..26 : UpperLetters[i] = c
    THEN LowerLetters[CHOOSE i \in 1..26 : UpperLetters[i] = c]
    ELSE c

\* str.upper()
Upper(s) == [i \in 1..Len(s) |-> UpperChar(s[i])]

\* str.lower()
Lower(s) == [i \in 1..Len(s) |-> LowerChar(s[i])]

\* c in s, for a one-character c
Contains(s, c) == \E i \in 1..Len(s) : s[i] = c

RECURSIVE Concat(_)
\* ''.join(parts)
Concat(parts) ==
  IF parts = <<>> THEN <<>> ELSE Head(parts) \o Concat(Tail(parts))

RECURSIVE Join(_, _)
\* sep.join(parts)
Join(parts, sep) ==
  IF parts = <<>> THEN <<>>
  ELSE IF Len(parts) = 1 THEN Head(parts)
  ELSE Head(parts) \o sep \o Join(Tail(parts), sep)

\* sep.join(f(p) for p in ...) where evaluating some f(p) raised
JoinOrRaise(parts, sep) ==
  IF \E i \in 1..Len(parts) : parts[i] = Raised THEN Raised ELSE Join(parts, sep)

RECURSIVE SplitFrom(_, _, _)
SplitFrom(s, c, cur) ==
  IF s = <<>> THEN <<cur>>
  ELSE IF Head(s) = c THEN <<cur>> \o SplitFrom(Tail(s), c, <<>>)
  ELSE SplitFrom(Tail(s), c, Append(cur, Head(s)))

\* s.split(c) for a one-character separator: empty pieces are kept
Split(s, c) == SplitFrom(s, c, <<>>)

\* the characters str.split() treats as whitespace
Whitespace == {" ", "TAB", "NL"}

RECURSIVE SplitWsFrom(_, _)
SplitWsFrom(s, cur) ==
  IF s = <<>> THEN (IF cur = <<>> THEN <<>> ELSE <<cur>>)
  ELSE IF Head(s) \in Whitespace
    THEN (IF cur = <<>> THEN <<>> ELSE <<cur>>) \o SplitWsFrom(Tail(s), <<>>)
  ELSE SplitWsFrom(Tail(s), Append(cur, Head(s)))

\* s.split(): split on runs of whitespace, no empty word
SplitWs(s) == SplitWsFrom(s, <<>>)

\* s.strip()
RECURSIVE LStrip(_)
LStrip(s) ==
  IF s # <<>> /\ Head(s) \in Whitespace THEN LStrip(Tail(s)) ELSE s

RECURSIVE RStrip(_)
RStrip(s) ==
  IF s # <<>> /\ s[Len(s)] \in Whitespace
    THEN RStrip(SubSeq(s, 1, Len(s) - 1)) ELSE s

Strip(s) == LStrip(RStrip(s))

\* s.replace(c, "") for a one-character c
RemoveChar(s, c) == SelectSeq(s, LAMBDA x : x # c)

StartsWith(s, p) == Len(s) >= Len(p) /\ SubSeq(s, 1, Len(p)) = p

RECURSIVE Replace(_, _, _)
\* s.replace(old, new): leftmost non-overlapping occurrences, old non-empty
Replace(s, old, new) ==
  IF s = <<>> THEN <<>>
  ELSE IF StartsWith(s, old)
    THEN new \o Replace(SubSeq(s, Len(old) + 1, Len(s)), old, new)
  ELSE <<Head(s)>> \o Replace(Tail(s), old, new)

\* ------------------------------------------------------------------------
\* sanitize_name

\* unicodedata.normalize('NFKD', c) of one character: U+00E9 is e followed by
\* the combining acute, U+00A0 a space, U+FF07 the ASCII apostrophe; the
\* dashes U+2013 and U+2014 and the quote U+2019 have no decomposition
Decompose(c) ==
  CASE c = "E_ACUTE" -> <<"e", "COMB_ACUTE">>
    [] c = "NBSP" -> <<" ">>
    [] c = "FW_APOS" -> <<"'">>
    [] OTHER -> <<c>>

RECURSIVE NFKD(_)
NFKD(s) == IF s = <<>> THEN <<>> ELSE Decompose(Head(s)) \o NFKD(Tail(s))

\* .encode('ascii', 'ignore').decode('ascii')
AsciiIgnore(s) == SelectSeq(s, LAMBDA c : c \notin NonAscii)

\* line 14 without normalize('NFKD', name)
NormalizeNoDecomposition(s) == AsciiIgnore(s)

\* line 14: normalize('NFKD', name).encode('ascii', 'ignore').decode('ascii')
Normalize(s) == AsciiIgnore(NFKD(s))

\* line 15: the four .replace(quote, "")
RemoveQuotes(s) ==
  RemoveChar(RemoveChar(RemoveChar(RemoveChar(s, "'"), "RSQUO"), "BACKTICK"),
             "DQUOTE")

\* line 17 left out
MergeHyphensSkipped(s) == s

\* line 17: cleaned.replace(" - ", " ")
MergeHyphens(s) == Replace(s, <<" ", "-", " ">>, <<" ">>)

\* line 18: ' '.join(cleaned.split())
CollapseSpaces(s) == Join(SplitWs(s), <<" ">>)

sanitize_name(name) ==
  LET normalized == Normalize(name)
      cleaned1 == RemoveQuotes(normalized)
      cleaned2 == MergeHyphens(cleaned1)
      cleaned3 == CollapseSpaces(cleaned2)
  IN  Strip(cleaned3)

\* ------------------------------------------------------------------------
\* Lexical classifier

RECURSIVE Rep(_, _)
\* the character c, n times
Rep(c, n) == IF n = 0 THEN <<>> ELSE <<c>> \o Rep(c, n - 1)

\* one decimal digit of the pattern: (one ten | one five | five? one{0,3})
RomanGroup(one, five, ten) ==
  {<<one, ten>>, <<one, five>>}
    \cup {f \o Rep(one, k) : f \in {<<>>, <<five>>}, k \in 0..3}

\* M{0,4}
RomanThousands == {Rep("M", k) : k \in 0..4}

\* (CM|CD|D?C{0,3})
RomanHundreds == RomanGroup("C", "D", "M")

\* (XC|XL|L?X{0,3})
RomanTens == RomanGroup("X", "L", "C")

\* (IX|IV|V?I{0,3})
RomanOnes == RomanGroup("I", "V", "X")

\* ^M{0,4}(CM|CD|D?C{0,3})(XC|XL|L?X{0,3})(IX|IV|V?I{0,3})$, re.IGNORECASE
ROMAN_NUMERAL_PATTERN(word) ==
  LET u == Upper(word)
      n == Len(u)
  IN  \E i \in 0..n :
        /\ SubSeq(u, 1, i) \in RomanThousands
        /\ \E j \in i..n :
             /\ SubSeq(u, i + 1, j) \in RomanHundreds
             /\ \E k \in j..n :
                  /\ SubSeq(u, j + 1, k) \in RomanTens
                  /\ SubSeq(u, k + 1, n) \in RomanOnes

ACRONYMS ==
  {
    <<"H","D">>, <<"2","D">>, <<"3","D">>, <<"4","K">>, <<"V","R">>,
    <<"A","I">>, <<"A","P","I">>, <<"U","S","B">>, <<"C","P","U">>, <<"G","P","U">>,
    <<"D","V","D">>, <<"C","D">>, <<"R","P","G">>, <<"F","P","S">>, <<"M","M","O">>,
    <<"M","M","O","R","P","G">>, <<"L","A","N">>, <<"G","U","I">>, <<"N","P","C">>, <<"F","F","V","I","I">>,
    <<"F","F","V","I","I","I">>, <<"F","F","I","X">>, <<"F","F","X">>, <<"F","F","X","I","I">>, <<"F","X">>,
    <<"2","K">>, <<"V","1">>, <<"V","2">>, <<"V","3">>, <<"V","4">>
  }

is_roman_numeral(word) == ROMAN_NUMERAL_PATTERN(word)

\* CapitalizePart with "else part.upper()" written "else part"
CapitalizePartSingleUnchanged(part) ==
  IF part # <<>>
    THEN IF Len(part) > 1
           THEN <<UpperChar(part[1])>> \o Lower(Tail(part))
           ELSE part
    ELSE <<>>

\* CapitalizePart with part[1:] in place of part[1:].lower()
CapitalizePartKeepRest(part) ==
  IF part # <<>>
    THEN IF Len(part) > 1
           THEN <<UpperChar(part[1])>> \o Tail(part)
           ELSE Upper(part)
    ELSE <<>>

\* one part of capitalize_hyphenated
CapitalizePart(part) ==
  IF part # <<>>
    THEN IF Len(part) > 1
           THEN <<UpperChar(part[1])>> \o Lower(Tail(part))
           ELSE Upper(part)
    ELSE <<>>

capitalize_hyphenated(word) ==
  LET parts == Split(word, "-")
  IN  JoinOrRaise([i \in 1..Len(parts) |-> CapitalizePart(parts[i])], <<"-">>)

\* the separators of a compound Roman numeral, in the order the code tries them
CompoundSeparators == <<"&", "+", "|">>

\* the loop over the separators ended without a return
NoCompound == <<"None">>

RECURSIVE CompoundFrom(_, _)
\* step 3 of capitalize_special from the i-th separator on
CompoundFrom(subword, i) ==
  IF i > Len(CompoundSeparators) THEN NoCompound
  ELSE LET sep == CompoundSeparators[i]
           pieces == Split(subword, sep)
       IN  IF /\ Contains(subword, sep)
              /\ \A p \in 1..Len(pieces) : is_roman_numeral(pieces[p])
             THEN Join([p \in 1..Len(pieces) |-> Upper(pieces[p])], <<sep>>)
             ELSE CompoundFrom(subword, i + 1)

\* capitalize_special without step 2 (the Roman numeral test)
capitalize_special_no_roman(subword) ==
  IF Upper(subword) \in ACRONYMS THEN Upper(subword)
  ELSE IF CompoundFrom(subword, 1) # NoCompound THEN CompoundFrom(subword, 1)
  ELSE capitalize_hyphenated(subword)

\* capitalize_special without step 3 (the compound Roman numerals)
capitalize_special_no_compound(subword) ==
  IF Upper(subword) \in ACRONYMS THEN Upper(subword)
  ELSE IF is_roman_numeral(subword) THEN Upper(subword)
  ELSE capitalize_hyphenated(subword)

capitalize_special(subword) ==
  IF Upper(subword) \in ACRONYMS THEN Upper(subword)
  ELSE IF is_roman_numeral(subword) THEN Upper(subword)
  ELSE IF CompoundFrom(subword, 1) # NoCompound THEN CompoundFrom(subword, 1)
  ELSE capitalize_hyphenated(subword)

\* ------------------------------------------------------------------------
\* title_case_preserve_numbers

lowercase_exceptions ==
  {
    <<"a">>, <<"a","n">>, <<"a","n","d">>, <<"a","s">>,
    <<"a","t">>, <<"b","u","t">>, <<"b","y">>, <<"f","o","r">>,
    <<"f","r","o","m">>, <<"i","n">>, <<"n","o","r">>, <<"o","f">>,
    <<"o","n">>, <<"o","r">>, <<"s","o">>, <<"t","h","e">>,
    <<"t","o">>, <<"w","i","t","h">>, <<"y","e","t">>
  }

subtitle_markers == {":", "~", "-", "EN_DASH", "EM_DASH"}

\* part in subtitle_markers
IsMarker(part) == Len(part) = 1 /\ part[1] \in subtitle_markers

\* any(marker in raw_word for marker in subtitle_markers)
ContainsMarker(raw_word) == \E m \in subtitle_markers : Contains(raw_word, m)

RECURSIVE ReSplitFrom(_, _)
ReSplitFrom(s, cur) ==
  IF s = <<>> THEN <<cur>>
  ELSE IF Head(s) \in subtitle_markers
    THEN <<cur, <<Head(s)>>>> \o ReSplitFrom(Tail(s), <<>>)
  ELSE ReSplitFrom(Tail(s), Append(cur, Head(s)))

RECURSIVE ReSplitDropFrom(_, _)
ReSplitDropFrom(s, cur) ==
  IF s = <<>> THEN <<cur>>
  ELSE IF Head(s) \in subtitle_markers
    THEN <<cur>> \o ReSplitDropFrom(Tail(s), <<>>)
  ELSE ReSplitDropFrom(Tail(s), Append(cur, Head(s)))

\* re.split without the capturing group: the markers are dropped
ReSplitNoCapture(raw_word) == ReSplitDropFrom(raw_word, <<>>)

\* re.split(r'([:~\-<en dash><em dash>])', raw_word): the markers are kept
ReSplit(raw_word) == ReSplitFrom(raw_word, <<>>)

\* '-'.join(capitalize_special(p) for p in part.split('-'))
CapitalizeSegment(part) ==
  LET sub_parts == Split(part, "-")
  IN  JoinOrRaise([i \in 1..Len(sub_parts) |-> capitalize_special(sub_parts[i])],
                  <<"-">>)

\* RenderSegment testing part, not lower_part, against lowercase_exceptions
RenderSegmentCaseSensitive(part, mode, is_first, is_last) ==
  IF mode \/ is_first \/ is_last \/ part \notin lowercase_exceptions
    THEN CapitalizeSegment(part)
    ELSE Lower(part)

\* the text appended for a segment that is not a marker
RenderSegment(part, mode, is_first, is_last) ==
  IF mode \/ is_first \/ is_last \/ Lower(part) \notin lowercase_exceptions
    THEN CapitalizeSegment(part)
    ELSE Lower(part)

RECURSIVE ScanParts(_, _, _, _, _)
\* the loop over split_parts: the rebuilt parts, the mode it leaves, and
\* modes, the value of force_capitalize_mode after each part
ScanParts(parts, mode, is_first, is_last, rebuilt_parts) ==
  IF parts = <<>>
    THEN [rebuilt |-> rebuilt_parts, mode |-> mode, raised |-> FALSE,
          modes |-> <<>>]
  ELSE IF IsMarker(Head(parts))
    THEN LET rest == ScanParts(Tail(parts), TRUE, is_first, is_last,
                               Append(rebuilt_parts, Head(parts)))
         IN  [rest EXCEPT !.modes = <<TRUE>> \o @]
  ELSE LET seg == RenderSegment(Head(parts), mode, is_first, is_last)
       IN  IF seg = Raised
             THEN [rebuilt |-> rebuilt_parts, mode |-> mode, raised |-> TRUE,
                   modes |-> <<>>]
             ELSE LET rest == ScanParts(Tail(parts), mode, is_first, is_last,
                                        Append(rebuilt_parts, seg))
                  IN  [rest EXCEPT !.modes = <<mode>> \o @]

\* ScanWordOf resetting force_capitalize_mode after every word
ScanWordOfAlwaysReset(wordlist, i, mode) ==
  LET raw_word == wordlist[i + 1]
      r == ScanParts(ReSplit(raw_word), mode, i = 0, i = Len(wordlist) - 1, <<>>)
  IN  [text   |-> Concat(r.rebuilt),
       mode   |-> FALSE,
       raised |-> r.raised,
       modes  |-> r.modes]

\* ScanWordOf without "if not contains_marker: force_capitalize_mode = False"
ScanWordOfNeverReset(wordlist, i, mode) ==
  LET raw_word == wordlist[i + 1]
      r == ScanParts(ReSplit(raw_word), mode, i = 0, i = Len(wordlist) - 1, <<>>)
  IN  [text   |-> Concat(r.rebuilt),
       mode   |-> r.mode,
       raised |-> r.raised,
       modes  |-> r.modes]

\* one iteration of the loop over words: the word appended to result,
\* force_capitalize_mode after it, and its value after each part of the word
ScanWordOf(wordlist, i, mode) ==
  LET raw_word == wordlist[i + 1]
      r == ScanParts(ReSplit(raw_word), mode, i = 0, i = Len(wordlist) - 1, <<>>)
  IN  [text   |-> Concat(r.rebuilt),
       mode   |-> IF ~ContainsMarker(raw_word) THEN FALSE ELSE r.mode,
       raised |-> r.raised,
       modes  |-> r.modes]

\* OverrideWord without the acronym test
OverrideWordNoAcronym(word) ==
  LET split == Split(word, "-")
      piece(p) == IF is_roman_numeral(p)
                    THEN Upper(p)
                    ELSE capitalize_hyphenated(p)
  IN  JoinOrRaise([i \in 1..Len(split) |-> piece(split[i])], <<"-">>)

\* OverrideWord dropping the empty pieces of word.split('-')
OverrideWordSkipEmpty(word) ==
  LET split == SelectSeq(Split(word, "-"), LAMBDA p : p # <<>>)
      piece(p) == IF Upper(p) \in ACRONYMS \/ is_roman_numeral(p)
                    THEN Upper(p)
                    ELSE capitalize_hyphenated(p)
  IN  JoinOrRaise([i \in 1..Len(split) |-> piece(split[i])], <<"-">>)

\* the final override of one word (the first, then the last)
OverrideWord(word) ==
  LET split == Split(word, "-")
      piece(p) == IF Upper(p) \in ACRONYMS \/ is_roman_numeral(p)
                    THEN Upper(p)
                    ELSE capitalize_hyphenated(p)
  IN  JoinOrRaise([i \in 1..Len(split) |-> piece(split[i])], <<"-">>)

\* PostPass without "if result:": result[0] of an empty list raises
PostPassUnguarded(res) ==
  IF res = <<>> THEN <<Raised>>
  ELSE LET r1 == [res EXCEPT ![1] = OverrideWord(res[1])]
       IN  [r1 EXCEPT ![Len(r1)] = OverrideWord(r1[Len(r1)])]

\* "if result:" and the two assignments result[0] = ..., result[-1] = ...
PostPass(res) ==
  IF res # <<>>
    THEN LET r1 == [res EXCEPT ![1] = OverrideWord(res[1])]
         IN  [r1 EXCEPT ![Len(r1)] = OverrideWord(r1[Len(r1)])]
    ELSE res

RECURSIVE ScanFrom(_, _, _, _)
\* the loop over words from index i (0-based) on
ScanFrom(wordlist, i, mode, res) ==
  IF i >= Len(wordlist) THEN [result |-> res, raised |-> FALSE]
  ELSE LET w == ScanWordOf(wordlist, i, mode)
       IN  IF w.raised THEN [result |-> res, raised |-> TRUE]
           ELSE ScanFrom(wordlist, i + 1, w.mode, Append(res, w.text))

\* some word of the list is the raised IndexError
AnyRaised(res) == \E i \in 1..Len(res) : res[i] = Raised

\* the whole function: the returned str, or Raised
title_case_preserve_numbers(name) ==
  LET scan == ScanFrom(SplitWs(name), 0, FALSE, <<>>)
  IN  IF scan.raised THEN Raised
      ELSE IF AnyRaised(PostPass(scan.result)) THEN Raised
      ELSE Join(PostPass(scan.result), <<" ">>)

clean_title(name) == title_case_preserve_numbers(sanitize_name(name))

\* ------------------------------------------------------------------------
\* The explored raw names

\* raw words of every lexical class, with and without markers
Vocabulary ==
  {
    <<"T","h","e">>,
    <<"o","f","-","t","h","e">>,
    <<"h","D">>,
    <<"h","d","r">>,
    <<"v","i","i">>,
    <<"i","&","i","i">>,
    <<"i","&","b">>,
    <<"i","&","x","-","b">>,
    <<"g","a","m","e",":">>,
    <<"r","e",":","z","e","r","o">>
  }

\* characters of the raw names enumerated exhaustively
Alphabet == {" ", "-", ":", "&", "a", "I", "E_ACUTE"}

\* titles of at most MaxWords words of Vocabulary, separated by one space
VocabularyTitles ==
  {Join(ws, <<" ">>) : ws \in UNION {[1..k -> Vocabulary] : k \in 0..MaxWords}}

\* every string over Alphabet of at most MaxLen characters
AlphabetStrings == UNION {[1..k -> Alphabet] : k \in 0..MaxLen}

\* a word ending in each kind of marker, a filler word and a plain word
MarkerVocabulary ==
  {
    <<"g","a","m","e",":">>,
    <<"g","a","m","e","EN_DASH">>,
    <<"o","f">>,
    <<"h","d","r">>
  }

\* titles of at most MaxLongWords words of MarkerVocabulary
LongTitles ==
  {Join(ws, <<" ">>) :
     ws \in UNION {[1..k -> MarkerVocabulary] : k \in 0..MaxLongWords}}

RawNames == VocabularyTitles \cup AlphabetStrings \cup LongTitles

\* ------------------------------------------------------------------------
\* clean_title(raw) as a state machine: sanitize, split, one step per word
\* of the scan, then the override of the first and last words and the join

VARIABLES raw, name, words, idx, result, force_capitalize_mode, part_modes,
          output, matched, pc

\* get_game_name_and_mod_name: the script it is taken from, its locals
VARIABLES variant, rel_parts, raw_game, country, game_name, raw_mod, mod_name

\* Fl4sh9174/format_repo.py, create_formatted_structure: the files below
\* folder_path outside formatted, the files below formatted, what
\* os.listdir has still to yield, the game folder being walked and what its
\* walk has still to yield
VARIABLES tree, formatted, listing, game_dir, walk

\* create_formatted_structure of the scripts that copy: the script, the
\* files below the root folder, the folders os.walk has still to visit (a
\* stack of listings) and the number of the run
VARIABLES formatter, fs, to_walk, run

\* the header patchers of cucholix: the script, the lines of the .pchtxt
\* file, the game name and title ID the file is patched with, how often it
\* has been patched and its lines after the first time
VARIABLES patcher, lines, header_name, header_id, patches, patched_once

\* patch_original_files_with_buildid: the content entries of cnmts.json in
\* the order the loops meet them, the normalized title map, the build ID
\* read from the file and the method the title ID was found by
VARIABLES cnmts_db, normalized_title_map, build_id, method

\* cucholix_aio.py, process_rar: the value of KEEP_TMP in the environment,
\* the archives still to process, the version of the one being processed,
\* the folders under TMP_ROOT, the one mkdtemp made for this archive, how
\* many it has made, how the finally clause went and the packs copied
VARIABLES keep_tmp_env, archives, release_version, tmpdirs, tmpdir, made,
          cleanup, packs

extractVars ==
  <<variant, rel_parts, raw_game, country, game_name, raw_mod, mod_name>>

\* the variables of the title engine
engineVars ==
  <<raw, name, words, idx, result, force_capitalize_mode, part_modes, output,
    matched>>

\* the title engine is not running
EngineIdle ==
  /\ raw = <<>>
  /\ name = <<>>
  /\ words = <<>>
  /\ idx = 0
  /\ result = <<>>
  /\ force_capitalize_mode = FALSE
  /\ part_modes = <<>>
  /\ output = <<>>
  /\ matched = FALSE

fl4shVars == <<tree, formatted, listing, game_dir, walk>>

\* the variables the title engine does not have
walkVars == <<formatter, fs, to_walk, run>>

patchVars == <<patcher, lines, header_name, header_id, patches, patched_once>>

lookupVars == <<cnmts_db, normalized_title_map, build_id, method>>

rarVars ==
  <<keep_tmp_env, archives, release_version, tmpdirs, tmpdir, made, cleanup,
    packs>>

laterVars ==
  <<extractVars, fl4shVars, walkVars, patchVars, lookupVars, rarVars>>

vars == <<raw, name, words, idx, result, force_capitalize_mode, part_modes,
          output, matched, pc, laterVars>>

\* no call of get_game_name_and_mod_name is under way
ExtractIdle ==
  /\ variant = "none"
  /\ rel_parts = <<>>
  /\ raw_game = <<>>
  /\ country = <<>>
  /\ game_name = <<>>
  /\ raw_mod = <<>>
  /\ mod_name = <<>>

\* no run of the Fl4sh9174 formatter is under way
Fl4shIdle == tree = {} /\ formatted = {} /\ listing = {} /\ game_dir = <<>> /\ walk = {}

\* no run of a copying formatter is under way
WalkIdle == formatter = "none" /\ fs = {} /\ to_walk = <<>> /\ run = 0

\* no file is being patched
PatchIdle == patcher = "none" /\ lines = <<>> /\ header_name = <<>> /\ header_id = <<>> /\ patches = 0 /\ patched_once = <<>>

\* no title ID is being looked up
LookupIdle == cnmts_db = <<>> /\ normalized_title_map = <<>> /\ build_id = <<>> /\ method = "none"

\* no archive is being processed
RarIdle == keep_tmp_env = "unset" /\ archives = <<>> /\ release_version = <<>> /\ tmpdirs = {} /\ tmpdir = 0 /\ made = 0 /\ cleanup = "none" /\ packs = {}

LaterIdle == ExtractIdle /\ Fl4shIdle /\ WalkIdle /\ PatchIdle /\ LookupIdle /\ RarIdle

Init ==
  /\ raw \in RawNames
  /\ name = <<>>
  /\ words = <<>>
  /\ idx = 0
  /\ result = <<>>
  /\ force_capitalize_mode = FALSE
  /\ part_modes = <<>>
  /\ output = <<>>
  /\ matched = FALSE
  /\ pc = "start"
  /\ LaterIdle

\* clean_title evaluates sanitize_name(name)
Sanitize ==
  /\ pc = "start"
  /\ name' = sanitize_name(raw)
  /\ pc' = "split"
  /\ UNCHANGED <<raw, words, idx, result, force_capitalize_mode, part_modes,
                 output, matched, laterVars>>

\* title_case_preserve_numbers starts: words, result, force_capitalize_mode
SplitWords ==
  /\ pc = "split"
  /\ words' = SplitWs(name)
  /\ result' = <<>>
  /\ force_capitalize_mode' = FALSE
  /\ idx' = 0
  /\ pc' = "scan"
  /\ UNCHANGED <<raw, name, part_modes, output, matched, laterVars>>

\* one iteration of "for idx, raw_word in enumerate(words)"
ScanWord ==
  /\ pc = "scan"
  /\ idx < Len(words)
  /\ LET w == ScanWordOf(words, idx, force_capitalize_mode)
     IN  IF w.raised
           THEN /\ pc' = "raised"
                /\ UNCHANGED <<idx, result, force_capitalize_mode, part_modes>>
           ELSE /\ result' = Append(result, w.text)
                /\ force_capitalize_mode' = w.mode
                /\ part_modes' = w.modes
                /\ idx' = idx + 1
                /\ pc' = "scan"
  /\ UNCHANGED <<raw, name, words, output, matched, laterVars>>

\* after the loop: the override of the first and last words, and the join
Finish ==
  /\ pc = "scan"
  /\ idx = Len(words)
  /\ IF AnyRaised(PostPass(result))
       THEN /\ pc' = "raised"
            /\ UNCHANGED <<result, output>>
       ELSE /\ result' = PostPass(result)
            /\ output' = Join(PostPass(result), <<" ">>)
            /\ pc' = "done"
  /\ UNCHANGED <<raw, name, words, idx, force_capitalize_mode, part_modes,
                 matched, laterVars>>

Next == Sanitize \/ SplitWords \/ ScanWord \/ Finish

Spec == Init /\ [][Next]_vars

TypeOK ==
  /\ pc \in {"start", "split", "scan", "done", "raised"}
  /\ idx \in 0..Len(words)
  /\ Len(result) = idx
  /\ force_capitalize_mode \in BOOLEAN

\* ------------------------------------------------------------------------
\* sanitize_name(raw) alone, one step per statement of its body; name holds
\* the local being rewritten (normalized, then cleaned)

\* spaces and hyphens around a letter
HyphenAlphabet == {"a", " ", "-"}

\* the removed quotes, characters outside ASCII with and without a
\* decomposition, and both kinds of whitespace
QuoteAlphabet ==
  {"a", " ", "TAB", "-", "'", "RSQUO", "BACKTICK", "DQUOTE",
   "E_ACUTE", "EN_DASH", "NBSP", "FW_APOS"}

HyphenNames == UNION {[1..k -> HyphenAlphabet] : k \in 0..MaxHyphenLen}

QuoteNames == UNION {[1..k -> QuoteAlphabet] : k \in 0..MaxQuoteLen}

SanitizeInputs == HyphenNames \cup QuoteNames

\* the variables sanitize_name does not touch
titleVars ==
  <<words, idx, result, force_capitalize_mode, part_modes, output, matched,
    laterVars>>

InitSanitize ==
  /\ raw \in SanitizeInputs
  /\ name = raw
  /\ words = <<>>
  /\ idx = 0
  /\ result = <<>>
  /\ force_capitalize_mode = FALSE
  /\ part_modes = <<>>
  /\ output = <<>>
  /\ matched = FALSE
  /\ pc = "normalize"
  /\ LaterIdle

\* normalized = unicodedata.normalize('NFKD', name).encode(...).decode(...)
NormalizeStep ==
  /\ pc = "normalize"
  /\ name' = Normalize(name)
  /\ pc' = "quotes"
  /\ UNCHANGED <<raw, titleVars>>

\* cleaned = normalized.replace("'", "").replace(...)...
RemoveQuotesStep ==
  /\ pc = "quotes"
  /\ name' = RemoveQuotes(name)
  /\ pc' = "merge"
  /\ UNCHANGED <<raw, titleVars>>

\* cleaned = cleaned.replace(" - ", " ")
MergeHyphensStep ==
  /\ pc = "merge"
  /\ name' = MergeHyphens(name)
  /\ pc' = "collapse"
  /\ UNCHANGED <<raw, titleVars>>

\* cleaned = ' '.join(cleaned.split())
CollapseSpacesStep ==
  /\ pc = "collapse"
  /\ name' = CollapseSpaces(name)
  /\ pc' = "strip"
  /\ UNCHANGED <<raw, titleVars>>

\* return cleaned.strip()
StripStep ==
  /\ pc = "strip"
  /\ name' = Strip(name)
  /\ pc' = "sanitized"
  /\ UNCHANGED <<raw, titleVars>>

NextSanitize ==
  \/ NormalizeStep
  \/ RemoveQuotesStep
  \/ MergeHyphensStep
  \/ CollapseSpacesStep
  \/ StripStep

SpecSanitize == InitSanitize /\ [][NextSanitize]_vars

\* ------------------------------------------------------------------------
\* is_roman_numeral(raw) alone

\* the seven numeral letters, and one of them in lower case
RomanAlphabet == {"I", "V", "X", "L", "C", "D", "M", "i"}

RomanTokens == UNION {[1..k -> RomanAlphabet] : k \in 0..MaxTokenLen}

InitRoman ==
  /\ raw \in RomanTokens
  /\ name = <<>>
  /\ words = <<>>
  /\ idx = 0
  /\ result = <<>>
  /\ force_capitalize_mode = FALSE
  /\ part_modes = <<>>
  /\ output = <<>>
  /\ matched = FALSE
  /\ pc = "classify"
  /\ LaterIdle

\* return bool(ROMAN_NUMERAL_PATTERN.match(word))
Classify ==
  /\ pc = "classify"
  /\ matched' = is_roman_numeral(raw)
  /\ pc' = "classified"
  /\ UNCHANGED <<raw, name, words, idx, result, force_capitalize_mode,
                 part_modes, output, laterVars>>

NextRoman == Classify

SpecRoman == InitRoman /\ [][NextRoman]_vars


\* ------------------------------------------------------------------------
\* get_game_name_and_mod_name and its helpers, in the three scripts that
\* have it: KeatonTheBot/format_repo3.py, theboy181/format_repo4.py and
\* StevensND/format_repo2.py

Digits == {"0", "1", "2", "3", "4", "5", "6", "7", "8", "9"}

\* sub in s, for a non-empty str sub
ContainsStr(s, sub) ==
  \E i \in 1..(Len(s) - Len(sub) + 1) : SubSeq(s, i, i + Len(sub) - 1) = sub

RECURSIVE SplitStrFrom(_, _, _)
SplitStrFrom(s, sep, cur) ==
  IF s = <<>> THEN <<cur>>
  ELSE IF StartsWith(s, sep)
    THEN <<cur>> \o SplitStrFrom(SubSeq(s, Len(sep) + 1, Len(s)), sep, <<>>)
  ELSE SplitStrFrom(Tail(s), sep, Append(cur, Head(s)))

\* s.split(sep) for a non-empty str sep
SplitStr(s, sep) == SplitStrFrom(s, sep, <<>>)

\* the first position after 1 where s has "]", or 0
ClosingBracket(s) ==
  IF \E j \in 2..Len(s) : s[j] = "]"
    THEN CHOOSE j \in 2..Len(s) : s[j] = "]" /\ \A n \in 2..(j - 1) : s[n] # "]"
    ELSE 0

RECURSIVE StripTags(_)
\* re.sub(r'\[.*?\]', '', s)
StripTags(s) ==
  IF s = <<>> THEN <<>>
  ELSE IF Head(s) = "[" /\ ClosingBracket(s) # 0
    THEN StripTags(SubSeq(s, ClosingBracket(s) + 1, Len(s)))
  ELSE <<Head(s)>> \o StripTags(Tail(s))

\* re.search(r'\[.*?\]', s)
HasTag(s) ==
  \E i \in 1..Len(s) : \E j \in (i + 1)..Len(s) : s[i] = "[" /\ s[j] = "]"

CommaThe == <<","," ","T","h","e">>

\* lines 162-165: if ', The' in game_name: parts = game_name.split(', The');
\* game_name = f"The {parts[0]}{parts[1]}"
RelocateThe(title) ==
  IF ContainsStr(title, CommaThe)
    THEN LET pieces == SplitStr(title, CommaThe)
         IN  <<"T","h","e"," ">> \o pieces[1] \o pieces[2]
    ELSE title

\* what follows the relocation: format_repo4 strips the colons, every
\* script merges " - "
RemoveSeparators(script, title) ==
  LET t == IF script = "format_repo4" THEN RemoveChar(title, ":") ELSE title
  IN  Replace(t, <<" ", "-", " ">>, <<" ">>)

\* country = None
NoCountry == <<"None">>

RECURSIVE FindCountry(_)
\* the loop over parts[1:]: the first part with a bracketed tag, its tags
\* removed and stripped
FindCountry(later_parts) ==
  IF later_parts = <<>> THEN NoCountry
  ELSE IF HasTag(Head(later_parts)) THEN Strip(StripTags(Head(later_parts)))
  ELSE FindCountry(Tail(later_parts))

\* "if country:" and the f-string of the next line
AppendCountry(title, found) ==
  IF found # NoCountry /\ found # <<>>
    THEN title \o <<" ", "(">> \o found \o <<")">>
    ELSE title

AspectRatio == <<"A","s","p","e","c","t"," ","R","a","t","i","o">>

\* the name of the folder given as root_dir
RootFolder == <<"r","e","p","o">>

\* os.sep.join(parts)
RelativePath(segments) == Join(segments, <<"/">>)

\* re.search(r' v\d+', s)
HasVersion(s) ==
  \E i \in 1..(Len(s) - 2) :
    s[i] = " " /\ s[i + 1] = "v" /\ s[i + 2] \in Digits

\* parts[-2], an IndexError when parts has one element
ParentPart(segments) ==
  IF Len(segments) >= 2 THEN segments[Len(segments) - 1] ELSE Raised

\* os.path.basename(os.path.dirname(path))
ParentFolder(segments) ==
  IF Len(segments) >= 2 THEN segments[Len(segments) - 1] ELSE RootFolder

\* format_repo3 lines 201-213
RawModKeaton(segments) ==
  IF ContainsStr(RelativePath(segments), AspectRatio)
    THEN AspectRatio \o <<" ">>
           \o Replace(ParentFolder(segments), <<"'">>, <<".">>)
  ELSE LET last_part == segments[Len(segments)]
       IN  IF ParentPart(segments) = Raised THEN Raised
           ELSE IF HasVersion(last_part)
             THEN ParentPart(segments) \o <<" ">> \o last_part
           ELSE ParentPart(segments)

\* format_repo4 lines 216-225
RawModTheboy(segments) ==
  IF ContainsStr(RelativePath(segments), AspectRatio)
    THEN AspectRatio \o <<" ">> \o segments[Len(segments)]
  ELSE LET last_folder == segments[Len(segments)]
       IN  IF HasVersion(last_folder)
             THEN IF ParentPart(segments) = Raised THEN Raised
                  ELSE ParentPart(segments) \o <<" ">> \o last_folder
           ELSE IF Len(segments) > 1 THEN ParentPart(segments) ELSE <<>>

\* the length of the longest suffix of s made of digits and dots
RECURSIVE VersionRun(_)
VersionRun(s) ==
  IF s # <<>> /\ s[Len(s)] \in Digits \cup {"."}
    THEN 1 + VersionRun(SubSeq(s, 1, Len(s) - 1))
    ELSE 0

\* m = re.search(r'(.*) v[0-9.]+$', raw_mod); raw_mod = m.group(1) if m
DropVersion(s) ==
  LET k == VersionRun(s)
  IN  IF k >= 1 /\ Len(s) >= k + 2
         /\ SubSeq(s, Len(s) - k - 1, Len(s) - k) = <<" ", "v">>
        THEN SubSeq(s, 1, Len(s) - k - 2)
        ELSE s

\* format_repo2 lines 180-194
RawModStevens(segments) ==
  IF ContainsStr(RelativePath(segments), AspectRatio)
    THEN AspectRatio \o <<" ">> \o segments[Len(segments)]
  ELSE LET mod_parts == [i \in 1..(Len(segments) - 1) |->
                           Strip(StripTags(segments[i + 1]))]
       IN  DropVersion(Join(mod_parts, <<" ">>))

\* the raw mod name as the script derives it, or Raised
RawMod(script, segments) ==
  CASE script = "format_repo3" -> RawModKeaton(segments)
    [] script = "format_repo4" -> RawModTheboy(segments)
    [] script = "format_repo2" -> RawModStevens(segments)

\* what the script does to raw_mod before cleaning it: format_repo4 lines
\* 227-232, format_repo2 line 196, nothing in format_repo3
PrepareMod(script, mod) ==
  CASE script = "format_repo3" -> mod
    [] script = "format_repo2" -> Strip(mod)
    [] script = "format_repo4" ->
         LET m1 == Strip(mod)
             m2 == Replace(Replace(m1, <<"'">>, <<".">>), <<"BACKTICK">>, <<".">>)
             m3 == Replace(m2, <<"2","1","-","9">>, <<"2","1",".","9">>)
             m4 == RemoveChar(m3, ":")
         IN  IF m4 = <<"T","r","a","i","l","b","l","a","z","e","r","s">> THEN <<"4", "K">> ELSE m4

\* mod_name: format_repo3 always cleans, the others only a non-empty raw_mod
CleanModName(script, mod) ==
  IF script # "format_repo3" /\ mod = <<>> THEN <<>> ELSE clean_title(mod)

\* names of game folders, the first segment of a relative path
GameFolders ==
  {
    <<"Z","e","l","d","a",","," ","T","h","e">>,
    <<"A",","," ","T","h","e"," ","B">>,
    <<"A",","," ","T","h","e"," ","B",","," ","T","h","e"," ","C">>,
    <<"G","a","m","e"," ","v","2">>,
    <<"G","a","m","e">>
  }

\* names of the folders below a game folder
ModFolders ==
  {
    <<"[","U","S","A","]">>,
    <<"E","u","r","o","p","e"," ","[","E","U","]">>,
    <<"M","o","d">>,
    <<"F","o","g"," ","v","1">>,
    <<"F","o","g"," ","v","1"," ","o","l","d">>,
    <<"A","s","p","e","c","t"," ","R","a","t","i","o">>,
    <<"2","1","-","9">>
  }

\* the relative paths os.walk can hand over: the root itself, or a game
\* folder and at most MaxDepth - 1 folders nested in it
WalkPaths ==
  {<<<<".">>>>} \cup
  UNION {{<<g>> \o t : g \in GameFolders, t \in [1..k -> ModFolders]} :
           k \in 0..(MaxDepth - 1)}

Scripts == {"format_repo3", "format_repo4", "format_repo2"}

extractFrame == <<engineVars, fl4shVars, walkVars, patchVars, lookupVars, rarVars>>

InitExtract ==
  /\ variant \in Scripts
  /\ rel_parts \in WalkPaths
  /\ raw_game = <<>>
  /\ country = NoCountry
  /\ game_name = <<>>
  /\ raw_mod = <<>>
  /\ mod_name = <<>>
  /\ pc = "tags"
  /\ EngineIdle
  /\ Fl4shIdle
  /\ WalkIdle
  /\ PatchIdle
  /\ LookupIdle
  /\ RarIdle

\* raw_game = parts[0]; raw_game = re.sub(r'\[.*?\]', '', raw_game).strip()
StripGameTags ==
  /\ pc = "tags"
  /\ raw_game' = Strip(StripTags(rel_parts[1]))
  /\ pc' = "relocate"
  /\ UNCHANGED <<variant, rel_parts, country, game_name, raw_mod, mod_name,
                 extractFrame>>

\* the ", The" test and the two assignments under it
Relocate ==
  /\ pc = "relocate"
  /\ raw_game' = RelocateThe(raw_game)
  /\ pc' = "separators"
  /\ UNCHANGED <<variant, rel_parts, country, game_name, raw_mod, mod_name,
                 extractFrame>>

\* the replace calls after the relocation
StripSeparators ==
  /\ pc = "separators"
  /\ raw_game' = RemoveSeparators(variant, raw_game)
  /\ pc' = "country"
  /\ UNCHANGED <<variant, rel_parts, country, game_name, raw_mod, mod_name,
                 extractFrame>>

\* the loop over parts[1:] and "if country: raw_game = ..."
DetectCountry ==
  /\ pc = "country"
  /\ country' = FindCountry(Tail(rel_parts))
  /\ raw_game' = AppendCountry(raw_game, FindCountry(Tail(rel_parts)))
  /\ pc' = "clean_game"
  /\ UNCHANGED <<variant, rel_parts, game_name, raw_mod, mod_name,
                 extractFrame>>

\* game_name = clean_title(raw_game)
CleanGame ==
  /\ pc = "clean_game"
  /\ IF clean_title(raw_game) = Raised
       THEN pc' = "raised" /\ UNCHANGED game_name
       ELSE game_name' = clean_title(raw_game) /\ pc' = "mod"
  /\ UNCHANGED <<variant, rel_parts, raw_game, country, raw_mod, mod_name,
                 extractFrame>>

\* the if/else that assigns raw_mod; parts[-2] can raise IndexError
DeriveMod ==
  /\ pc = "mod"
  /\ IF RawMod(variant, rel_parts) = Raised
       THEN pc' = "raised" /\ UNCHANGED raw_mod
       ELSE raw_mod' = RawMod(variant, rel_parts) /\ pc' = "prepare"
  /\ UNCHANGED <<variant, rel_parts, raw_game, country, game_name, mod_name,
                 extractFrame>>

\* strip and replacements of raw_mod, then mod_name, then return
CleanMod ==
  /\ pc = "prepare"
  /\ raw_mod' = PrepareMod(variant, raw_mod)
  /\ IF CleanModName(variant, PrepareMod(variant, raw_mod)) = Raised
       THEN pc' = "raised" /\ UNCHANGED mod_name
       ELSE /\ mod_name' = CleanModName(variant, PrepareMod(variant, raw_mod))
            /\ pc' = "returned"
  /\ UNCHANGED <<variant, rel_parts, raw_game, country, game_name,
                 extractFrame>>

NextExtract ==
  \/ StripGameTags
  \/ Relocate
  \/ StripSeparators
  \/ DetectCountry
  \/ CleanGame
  \/ DeriveMod
  \/ CleanMod

SpecExtract == InitExtract /\ [][NextExtract]_vars


\* raw_game as clean_title receives it
RawGameName(script, segments) ==
  AppendCountry(
    RemoveSeparators(script, RelocateThe(Strip(StripTags(segments[1])))),
    FindCountry(Tail(segments)))

\* mod_name from the raw mod name the if/else derived, Raised if that raised
ModNameOf(script, derived) ==
  IF derived = Raised THEN Raised
  ELSE CleanModName(script, PrepareMod(script, derived))

\* return game_name, mod_name
ReturnNames(game, mod) ==
  IF game = Raised \/ mod = Raised THEN Raised ELSE <<game, mod>>

\* get_game_name_and_mod_name as a whole: the pair it returns, or Raised
ExtractNames(script, segments) ==
  ReturnNames(clean_title(RawGameName(script, segments)),
              ModNameOf(script, RawMod(script, segments)))

\* ------------------------------------------------------------------------
\* Fl4sh9174/format_repo.py: create_formatted_structure

PchtxtSuffix == <<".","p","c","h","t","x","t">>

\* file.lower().endswith('.pchtxt')
IsPchtxt(file) ==
  Len(file) >= Len(PchtxtSuffix)
    /\ Lower(SubSeq(file, Len(file) - Len(PchtxtSuffix) + 1, Len(file)))
         = PchtxtSuffix

\* mod_match.group(1) of re.search(r'\[(.*?)\]', s), for s with a match
TagGroup(s) ==
  LET open == CHOOSE n \in 1..Len(s) :
                /\ s[n] = "["
                /\ \E j \in (n + 1)..Len(s) : s[j] = "]"
                /\ \A q \in 1..(n - 1) :
                     ~(s[q] = "[" /\ \E j \in (q + 1)..Len(s) : s[j] = "]")
      close == CHOOSE n \in (open + 1)..Len(s) :
                 s[n] = "]" /\ \A q \in (open + 1)..(n - 1) : s[q] # "]"
  IN  SubSeq(s, open + 1, close - 1)

\* a file of the tree: the game folder, the folders between it and the
\* file, and the file name
FileAt(game, below, file) == [game |-> game, below |-> below, file |-> file]

\* os.path.relpath(root, folder_path) for the folder of file f
RelativeRoot(f) == RelativePath(<<f.game>> \o f.below)

\* the file of formatted that f is moved to: lines 187-201. clean_title of
\* this script differs from the one modelled above in its ACRONYMS and in
\* the spelling of the non-ASCII markers; no name used here has either
DestFile(f) ==
  LET raw_mod_name == TagGroup(RelativeRoot(f))
      mod_name_no_version == Strip(DropVersion(raw_mod_name))
      version == Strip(SubSeq(f.file, 1, Len(f.file) - Len(PchtxtSuffix)))
  IN  [dir |-> clean_title(f.game) \o <<" ", "-", " ">>
                 \o clean_title(mod_name_no_version),
       file |-> version \o PchtxtSuffix]

\* shutil.move(source_file, dest_file): the file at dest_file, if any, is
\* replaced
MoveInto(target, f) ==
  {g \in target : g.dest # DestFile(f)} \cup {[dest |-> DestFile(f), from |-> f]}

Fl4shGames == {<<"G","a","m","e">>, <<"O","t","h","e","r">>}

Fl4shBelow ==
  {<<>>,
   <<<<"[","F","o","g"," ","v","1",".","0","]">>>>,
   <<<<"[","F","o","g"," ","v","2",".","0","]">>>>,
   <<<<"M","o","d">>>>}

Fl4shFileNames == {<<"1",".","0",".","p","c","h","t","x","t">>, <<"n","o","t","e","s",".","t","x","t">>}

Fl4shFiles ==
  {FileAt(g, b, n) : g \in Fl4shGames, b \in Fl4shBelow, n \in Fl4shFileNames}

\* "formatted", which os.makedirs has made, and a .zip left by unzip_files
FormattedName == <<"f","o","r","m","a","t","t","e","d">>

ZipName == <<"G","a","m","e",".","z","i","p">>

\* the folders of folder_path that hold the files of t
GameDirs(t) == {f.game : f \in t}

\* os.path.isdir(game_dir_path)
IsDir(entry) == entry # ZipName

InitFl4sh ==
  /\ tree \in {t \in SUBSET Fl4shFiles : t # {} /\ Cardinality(t) <= MaxFiles}
  /\ formatted = {}
  /\ listing = GameDirs(tree) \cup {FormattedName, ZipName}
  /\ game_dir = <<>>
  /\ walk = {}
  /\ pc = "listdir"
  /\ EngineIdle
  /\ ExtractIdle
  /\ WalkIdle
  /\ PatchIdle
  /\ LookupIdle
  /\ RarIdle

fl4shFrame == <<engineVars, extractVars, walkVars, patchVars, lookupVars, rarVars>>

\* for game_dir in os.listdir(folder_path): the skip of line 172, or the
\* start of the walk of the folder
ListGameDir ==
  /\ pc = "listdir"
  /\ \E entry \in listing :
       /\ listing' = listing \ {entry}
       /\ IF ~IsDir(entry) \/ entry = FormattedName
            THEN UNCHANGED <<game_dir, walk, pc>>
            ELSE /\ game_dir' = entry
                 /\ walk' = {f \in tree : f.game = entry}
                 /\ pc' = "walk"
  /\ UNCHANGED <<tree, formatted, fl4shFrame>>

\* for file in files: a file that is no .pchtxt, or whose relative path has
\* no bracketed part, is passed over; the others are moved
VisitFile ==
  /\ pc = "walk"
  /\ \E f \in walk :
       /\ walk' = walk \ {f}
       /\ IF IsPchtxt(f.file) /\ HasTag(RelativeRoot(f))
            THEN /\ tree' = tree \ {f}
                 /\ formatted' = MoveInto(formatted, f)
            ELSE UNCHANGED <<tree, formatted>>
  /\ UNCHANGED <<listing, game_dir, pc, fl4shFrame>>

\* shutil.rmtree(game_dir_path), once the walk is over
RemoveGameDir ==
  /\ pc = "walk"
  /\ walk = {}
  /\ tree' = {f \in tree : f.game # game_dir}
  /\ game_dir' = <<>>
  /\ pc' = "listdir"
  /\ UNCHANGED <<formatted, listing, walk, fl4shFrame>>

\* the listing is exhausted
FinishFl4sh ==
  /\ pc = "listdir"
  /\ listing = {}
  /\ pc' = "organized"
  /\ UNCHANGED <<tree, formatted, listing, game_dir, walk, fl4shFrame>>

NextFl4sh ==
  \/ ListGameDir
  \/ VisitFile
  \/ RemoveGameDir
  \/ FinishFl4sh

SpecFl4sh == InitFl4sh /\ [][NextFl4sh]_vars


\* ------------------------------------------------------------------------
\* create_formatted_structure of cucholix/format_repo5.py,
\* KeatonTheBot/format_repo3.py, StevensND/format_repo2.py and
\* theboy181/format_repo4.py

Formatters == {"format_repo5", "format_repo3", "format_repo2", "format_repo4"}

Graphics == <<"G","r","a","p","h","i","c","s">>

GraphicsMods == <<"G","r","a","p","h","i","c","s"," ","M","o","d","s">>

\* a file: the folders from the root folder down to it, and its name
FileIn(dir, file) == [dir |-> dir, file |-> file]

\* the files os.walk yields for the folder dir
FilesOf(dir, files) == {f \in files : f.dir = dir}

\* the folders os.walk yields for the folder dir: those that hold a file at
\* any depth and, in the root folder, formatted, which os.makedirs has made
DirsOf(dir, files) ==
  {SubSeq(f.dir, 1, Len(dir) + 1) :
     f \in {h \in files : Len(h.dir) > Len(dir)
                            /\ SubSeq(h.dir, 1, Len(dir)) = dir}}
  \cup (IF dir = <<>> THEN {<<FormattedName>>} ELSE {})

\* if 'formatted' in root.split(os.sep): continue; format_repo5 has no
\* such test
Skipped(script, dir) ==
  script # "format_repo5" /\ \E n \in 1..Len(dir) : dir[n] = FormattedName

\* s.endswith(suffix)
HasSuffix(s, suffix) ==
  Len(s) >= Len(suffix) /\ SubSeq(s, Len(s) - Len(suffix) + 1, Len(s)) = suffix

\* os.path.basename(current_root)
BaseName(dir) == IF dir = <<>> THEN RootFolder ELSE dir[Len(dir)]

\* lines 163-165: if game_name.endswith("Graphics"): cut it and strip
CutGraphics(sanitized) ==
  IF HasSuffix(sanitized, Graphics)
    THEN Strip(SubSeq(sanitized, 1, Len(sanitized) - Len(Graphics)))
    ELSE sanitized

\* f"{game_name} - {mod_name}", Raised if a name could not be made
JoinNames(game, mod) ==
  IF game = Raised \/ mod = Raised THEN Raised
  ELSE game \o <<" ", "-", " ">> \o mod

\* format_repo5 lines 160-171: the name of the folder made under formatted.
\* The sanitizer and title caser of format_repo5 differ from the ones
\* modelled above in ACRONYMS only; no name used here has one of them
GraphicsDir(dir) ==
  JoinNames(
    title_case_preserve_numbers(CutGraphics(sanitize_name(BaseName(dir)))),
    GraphicsMods)

\* new_dir of the other scripts, from what get_game_name_and_mod_name
\* returned
NamedDir(names) ==
  IF names = Raised THEN Raised ELSE JoinNames(names[1], names[2])

\* os.path.relpath(root, folder_path).split(os.sep)
WalkSegments(dir) == IF dir = <<>> THEN <<<<".">>>> ELSE dir

\* the name of the folder made under formatted for the files of dir, or
\* Raised
TargetDir(script, dir) ==
  IF script = "format_repo5" THEN GraphicsDir(dir)
  ELSE NamedDir(ExtractNames(script, WalkSegments(dir)))

\* the files of dir that the loop body copies
CopySources(script, dir, files) ==
  IF Skipped(script, dir) THEN {}
  ELSE {f \in FilesOf(dir, files) : IsPchtxt(f.file)}

\* dst of a copied file: <version>.pchtxt in the target folder
CopyOf(target, f) ==
  FileIn(<<FormattedName, target>>,
         Strip(SubSeq(f.file, 1, Len(f.file) - Len(PchtxtSuffix)))
           \o PchtxtSuffix)

\* the stack of listings without its exhausted listings
RECURSIVE Unexhausted(_)
Unexhausted(stack) ==
  IF stack = <<>> THEN <<>>
  ELSE IF Head(stack) = {} THEN Unexhausted(Tail(stack))
  ELSE <<Head(stack)>> \o Unexhausted(Tail(stack))

WalkGameDirs ==
  {
    <<<<"G","a","m","e">>>>,
    <<<<"Z","e","l","d","a"," ","G","r","a","p","h","i","c","s">>>>,
    <<<<"G","a","m","e">>, <<"M","o","d">>>>,
    <<<<"O","t","h","e","r">>, <<"M","o","d">>>>
  }

WalkFileNames == {<<"1",".","0",".","p","c","h","t","x","t">>, <<"n","o","t","e","s",".","t","x","t">>}

WalkFiles == {FileIn(d, n) : d \in WalkGameDirs, n \in WalkFileNames}

InitWalk ==
  /\ formatter \in Formatters
  /\ fs \in {t \in SUBSET WalkFiles : t # {} /\ Cardinality(t) <= MaxCopied}
  /\ to_walk = <<{<<>>}>>
  /\ run = 1
  /\ pc = "walking"
  /\ EngineIdle
  /\ ExtractIdle
  /\ Fl4shIdle
  /\ PatchIdle
  /\ LookupIdle
  /\ RarIdle

walkFrame == <<engineVars, extractVars, fl4shVars, patchVars, lookupVars, rarVars>>

\* the body of the loop for the folder dir: its files are copied to target,
\* and the folders listed in dir are put before the rest of the walk
CopyFiles(dir, sources, target) ==
  IF sources # {} /\ target = Raised
    THEN pc' = "aborted" /\ UNCHANGED <<fs, to_walk>>
    ELSE /\ fs' = fs \cup {CopyOf(target, f) : f \in sources}
         /\ to_walk' = Unexhausted(<<DirsOf(dir, fs), Head(to_walk) \ {dir}>>
                                     \o Tail(to_walk))
         /\ pc' = pc

\* one iteration of "for root, dirs, files in os.walk(...)": os.walk lists
\* the folder, the body copies its .pchtxt files, and the folders listed
\* are walked next, in the order of the listing, which is arbitrary
VisitDir ==
  /\ pc = "walking"
  /\ to_walk # <<>>
  /\ \E dir \in Head(to_walk) :
       CopyFiles(dir, CopySources(formatter, dir, fs), TargetDir(formatter, dir))
  /\ UNCHANGED <<formatter, run, walkFrame>>

\* os.walk is exhausted
FinishWalk ==
  /\ pc = "walking"
  /\ to_walk = <<>>
  /\ pc' = "walked"
  /\ UNCHANGED <<formatter, fs, to_walk, run, walkFrame>>

\* the script is run again on the same folder
RunAgain ==
  /\ pc = "walked"
  /\ run < MaxRuns
  /\ run' = run + 1
  /\ to_walk' = <<{<<>>}>>
  /\ pc' = "walking"
  /\ UNCHANGED <<formatter, fs, walkFrame>>

NextWalk ==
  \/ VisitDir
  \/ FinishWalk
  \/ RunAgain

SpecWalk == InitWalk /\ [][NextWalk]_vars


\* ------------------------------------------------------------------------
\* cucholix/titleid_patcher2.py, patch_pchtxt_file, and
\* cucholix/titleid_patcher.py, the loop body of update_pchtxt_headers

NsobidPrefix == <<"@","n","s","o","b","i","d","-">>

\* f"# {game_name} [{title_id}]\n"
HeaderLine(game, id) ==
  <<"#", " ">> \o game \o <<" ", "[">> \o id \o <<"]", "NL">>

\* "[" in line and "]" in line
HasBrackets(line) == Contains(line, "[") /\ Contains(line, "]")

\* the header line as patched: rewritten when it has brackets, extended
\* when it has none
PatchedHeader(line, game, id) ==
  IF HasBrackets(line) THEN HeaderLine(game, id)
  ELSE Strip(line) \o <<" ", "[">> \o id \o <<"]", "NL">>

\* the index of the first line that starts with prefix, or 0
FirstLineWith(content, prefix) ==
  IF \E i \in 1..Len(content) : StartsWith(content[i], prefix)
    THEN CHOOSE i \in 1..Len(content) :
           /\ StartsWith(content[i], prefix)
           /\ \A j \in 1..(i - 1) : ~StartsWith(content[j], prefix)
    ELSE 0

\* lines.insert(at, line) for a 0-based index at, which Python clamps to the
\* length of the list
InsertLine(content, at, line) ==
  LET n == IF at > Len(content) THEN Len(content) ELSE at
  IN  SubSeq(content, 1, n) \o <<line>> \o SubSeq(content, n + 1, Len(content))

\* titleid_patcher2 lines 258-274: where the new header goes in a file
\* that has none, as a 0-based index
InsertIndex(content) ==
  LET nsobid == FirstLineWith(content, NsobidPrefix)
  IN  IF nsobid = 0 THEN 0
      ELSE IF nsobid + 1 <= Len(content) /\ Strip(content[nsobid + 1]) = <<>>
        THEN nsobid + 1
      ELSE nsobid

\* the lines written back by one call
PatchLines(script, content, game, id) ==
  LET header == FirstLineWith(content, <<"#">>)
  IN  IF header # 0
        THEN [content EXCEPT ![header] = PatchedHeader(content[header], game, id)]
      ELSE IF script = "titleid_patcher2"
        THEN InsertLine(content, InsertIndex(content), HeaderLine(game, id))
      ELSE InsertLine(content, 1, HeaderLine(game, id))

Patchers == {"titleid_patcher2", "titleid_patcher"}

PchtxtLines ==
  {
    <<"#"," ","M","y"," ","M","o","d","NL">>,
    <<"#"," ","G","a","m","e"," ","[","O","L","D","]","NL">>,
    <<"#"," ","G","a","m","e">>,
    <<"@","n","s","o","b","i","d","-","A","B","NL">>,
    <<"NL">>,
    <<"@","e","n","a","b","l","e","d","NL">>
  }

\* the files of at most MaxLines lines; only the last line of a file can
\* lack its newline
PchtxtFiles ==
  {c \in UNION {[1..n -> PchtxtLines] : n \in 0..MaxLines} :
     \A i \in 1..(Len(c) - 1) : c[i][Len(c[i])] = "NL"}

HeaderNames == {<<"G","a","m","e">>}

TitleIds == {<<"0","1","0","0">>}

InitPatch ==
  /\ patcher \in Patchers
  /\ lines \in PchtxtFiles
  /\ header_name \in HeaderNames
  /\ header_id \in TitleIds
  /\ patches = 0
  /\ patched_once = <<>>
  /\ pc = "patch"
  /\ EngineIdle
  /\ ExtractIdle
  /\ Fl4shIdle
  /\ WalkIdle
  /\ LookupIdle
  /\ RarIdle

patchFrame == <<engineVars, extractVars, fl4shVars, walkVars, lookupVars, rarVars>>

\* one call of patch_pchtxt_file, or one round of the loop body, with the
\* same game name and title ID
PatchFile ==
  /\ pc = "patch"
  /\ patches < MaxPatches
  /\ lines' = PatchLines(patcher, lines, header_name, header_id)
  /\ patches' = patches + 1
  /\ patched_once' = IF patches = 0
                       THEN PatchLines(patcher, lines, header_name, header_id)
                       ELSE patched_once
  /\ UNCHANGED <<patcher, header_name, header_id, pc, patchFrame>>

NextPatch == PatchFile

SpecPatch == InitPatch /\ [][NextPatch]_vars


\* ------------------------------------------------------------------------
\* cucholix/titleid_patcher2.py: patch_original_files_with_buildid, the
\* body of its loop over the .pchtxt files of a folder

\* None, as a build ID and as a title ID
NoId == <<"None">>

\* "if not x" for a build ID or title ID x
NotFound(id) == id = NoId \/ id = <<>>

\* extract_nsobid_from_pchtxt: what follows "@nsobid-" on the first
\* stripped line that starts with it, in upper case, or None
ExtractNsobid(content) ==
  IF \E i \in 1..Len(content) : StartsWith(Strip(content[i]), NsobidPrefix)
    THEN LET i == CHOOSE n \in 1..Len(content) :
                    /\ StartsWith(Strip(content[n]), NsobidPrefix)
                    /\ \A j \in 1..(n - 1) :
                         ~StartsWith(Strip(content[j]), NsobidPrefix)
             line == Strip(content[i])
         IN  Upper(SubSeq(line, Len(NsobidPrefix) + 1, Len(line)))
    ELSE NoId

\* a content entry of cnmts.json under its title ID
ContentEntry(title, build, type) ==
  [title_id |-> title, buildId |-> build, type |-> type]

\* the test of lines 167-169 without entry.get("type") == 1
EntryMatchesAnyType(entry, build) ==
  /\ ~NotFound(entry.buildId)
  /\ StartsWith(Upper(entry.buildId), build)

\* the test of lines 167-169 on one entry
EntryMatches(entry, build) ==
  /\ ~NotFound(entry.buildId)
  /\ entry.type = 1
  /\ StartsWith(Upper(entry.buildId), build)

\* find_title_id_by_build_id: the title ID, in upper case, of the first
\* entry that matches, or None
FindTitleIdByBuildId(build, entries) ==
  IF NotFound(build) THEN NoId
  ELSE IF \E i \in 1..Len(entries) : EntryMatches(entries[i], Upper(build))
    THEN Upper(entries[CHOOSE i \in 1..Len(entries) :
                         /\ EntryMatches(entries[i], Upper(build))
                         /\ \A j \in 1..(i - 1) :
                              ~EntryMatches(entries[j], Upper(build))].title_id)
  ELSE NoId

\* re.sub(r'[^a-zA-Z0-9 ]', '', text)
KeepAlnumSpace(text) ==
  SelectSeq(text, LAMBDA c :
    \/ c = " "
    \/ c \in Digits
    \/ \E i \in 1..26 : LowerLetters[i] = c \/ UpperLetters[i] = c)

\* normalize_title
NormalizeTitle(text) ==
  Join(SplitWs(Lower(KeepAlnumSpace(Normalize(text)))), <<" ">>)

\* get_title_id_from_name: the exact match, then the first key that has the
\* query in it. No key used here is within the cutoff of get_close_matches
\* of a query that it does not contain
GetTitleIdFromName(game, titles) ==
  LET norm_query == NormalizeTitle(game)
  IN  IF game = <<>> THEN NoId
      ELSE IF \E i \in 1..Len(titles) : titles[i][1] = norm_query
        THEN titles[CHOOSE i \in 1..Len(titles) : titles[i][1] = norm_query][2]
      ELSE IF \E i \in 1..Len(titles) : ContainsStr(titles[i][1], norm_query)
        THEN titles[CHOOSE i \in 1..Len(titles) :
                      /\ ContainsStr(titles[i][1], norm_query)
                      /\ \A j \in 1..(i - 1) :
                           ~ContainsStr(titles[j][1], norm_query)][2]
      ELSE NoId

NsobidLines ==
  {
    <<"@","n","s","o","b","i","d","-","a","b","NL">>,
    <<"@","n","s","o","b","i","d","-","C","D","NL">>,
    <<"@","n","s","o","b","i","d","-","NL">>,
    <<"#"," ","G","a","m","e","NL">>
  }

NsobidFiles == UNION {[1..n -> NsobidLines] : n \in 0..MaxLines}

ContentEntries ==
  {ContentEntry(<<"0","1","a","b">>, <<"A","B","1","2">>, 1),
   ContentEntry(<<"0","2","0","0">>, <<"a","b","3","4">>, 2),
   ContentEntry(<<"0","3","0","0">>, <<"C","D","0","0">>, 1),
   ContentEntry(<<"0","4","0","0">>, NoId, 1)}

CnmtsDbs == UNION {[1..n -> ContentEntries] : n \in 0..MaxEntries}

TitleMaps ==
  {<<>>,
   <<<<<<"g","a","m","e">>, <<"0","5","0","0">>>>>>,
   <<<<<<"g","a","m","e"," ","t","w","o">>, <<"0","6","0","0">>>>>>,
   <<<<<<"o","t","h","e","r">>, <<"0","7","0","0">>>>, <<<<"g","a","m","e"," ","t","w","o">>, <<"0","6","0","0">>>>>>}

InitLookup ==
  /\ patcher = "titleid_patcher2"
  /\ lines \in NsobidFiles
  /\ header_name \in HeaderNames
  /\ header_id = NoId
  /\ patches = 0
  /\ patched_once = <<>>
  /\ cnmts_db \in CnmtsDbs
  /\ normalized_title_map \in TitleMaps
  /\ build_id = NoId
  /\ method = "none"
  /\ pc = "extract"
  /\ EngineIdle
  /\ ExtractIdle
  /\ Fl4shIdle
  /\ WalkIdle
  /\ RarIdle

lookupFrame == <<engineVars, extractVars, fl4shVars, walkVars, rarVars>>

\* build_id = extract_nsobid_from_pchtxt(file_path)
ExtractBuildId ==
  /\ pc = "extract"
  /\ build_id' = ExtractNsobid(lines)
  /\ pc' = IF NotFound(ExtractNsobid(lines)) THEN "fallback" ELSE "by_build_id"
  /\ UNCHANGED <<patcher, lines, header_name, header_id, patches, patched_once,
                 cnmts_db, normalized_title_map, method, lookupFrame>>

\* if build_id: title_id, full_build_id = find_title_id_by_build_id(...)
LookupBuildId ==
  /\ pc = "by_build_id"
  /\ header_id' = FindTitleIdByBuildId(build_id, cnmts_db)
  /\ method' = IF NotFound(FindTitleIdByBuildId(build_id, cnmts_db))
                 THEN method ELSE "build_id"
  /\ pc' = "fallback"
  /\ UNCHANGED <<patcher, lines, header_name, patches, patched_once,
                 cnmts_db, normalized_title_map, build_id, lookupFrame>>

\* if not title_id: title_id = get_title_id_from_name(...)
LookupName ==
  /\ pc = "fallback"
  /\ NotFound(header_id)
  /\ header_id' = GetTitleIdFromName(header_name, normalized_title_map)
  /\ method' = IF NotFound(GetTitleIdFromName(header_name, normalized_title_map))
                 THEN method ELSE "name"
  /\ pc' = "write"
  /\ UNCHANGED <<patcher, lines, header_name, patches, patched_once,
                 cnmts_db, normalized_title_map, build_id, lookupFrame>>

\* the name lookup is passed over
KeepBuildIdTitle ==
  /\ pc = "fallback"
  /\ ~NotFound(header_id)
  /\ pc' = "write"
  /\ UNCHANGED <<patcher, lines, header_name, header_id, patches, patched_once,
                 cnmts_db, normalized_title_map, build_id, method, lookupFrame>>

\* if title_id: patch_pchtxt_file(file_path, game_name, title_id)
WriteTitleId ==
  /\ pc = "write"
  /\ IF NotFound(header_id)
       THEN pc' = "no_title_id" /\ UNCHANGED <<lines, patches, patched_once>>
       ELSE /\ lines' = PatchLines(patcher, lines, header_name, header_id)
            /\ patches' = patches + 1
            /\ patched_once' = PatchLines(patcher, lines, header_name, header_id)
            /\ pc' = "patched"
  /\ UNCHANGED <<patcher, header_name, header_id, cnmts_db,
                 normalized_title_map, build_id, method, lookupFrame>>

NextLookup ==
  \/ ExtractBuildId
  \/ LookupBuildId
  \/ LookupName
  \/ KeepBuildIdTitle
  \/ WriteTitleId

SpecLookup == InitLookup /\ [][NextLookup]_vars


\* ------------------------------------------------------------------------
\* cucholix/cucholix_aio.py: process_rar

\* KEEP_TMP taken as never set
KeepTmpNever(value) == FALSE

\* KEEP_TMP = os.environ.get("KEEP_TMP", "") != ""
KEEP_TMP(value) == value # "unset" /\ value # ""

ReleasePrefix == <<"r","e","l","e","a","s","e","_">>

PartMark == <<".","p","a","r","t">>

\* the position of the last "." of s, or 0
LastDot(s) ==
  IF \E i \in 1..Len(s) : s[i] = "."
    THEN CHOOSE i \in 1..Len(s) : s[i] = "." /\ \A j \in (i + 1)..Len(s) : s[j] # "."
    ELSE 0

\* s is ".part" followed by digits
IsPartSuffix(s) ==
  /\ Len(s) > Len(PartMark)
  /\ Lower(SubSeq(s, 1, Len(PartMark))) = PartMark
  /\ \A i \in (Len(PartMark) + 1)..Len(s) : s[i] \in Digits

\* what is between "release_" and the extension, <<>> when the name has
\* not that shape
ReleaseStem(filename) ==
  LET dot == LastDot(filename)
      ext == Lower(SubSeq(filename, dot + 1, Len(filename)))
  IN  IF /\ dot # 0
         /\ ext \in {<<"r", "a", "r">>, <<"7", "z">>}
         /\ Len(filename) >= Len(ReleasePrefix)
         /\ Lower(SubSeq(filename, 1, Len(ReleasePrefix))) = ReleasePrefix
         /\ dot > Len(ReleasePrefix)
        THEN SubSeq(filename, Len(ReleasePrefix) + 1, dot - 1)
        ELSE <<>>

\* group(1) of re.match(r"release_(.+?)(?:\.part\d+)?\.(rar|7z)$", ...,
\* re.IGNORECASE): the shortest version that lets the rest match, <<>> when
\* there is no match
ReleaseVersion(filename) ==
  LET stem == ReleaseStem(filename)
      dot == LastDot(stem)
  IN  IF dot > 1 /\ IsPartSuffix(SubSeq(stem, dot, Len(stem)))
        THEN SubSeq(stem, 1, dot - 1)
        ELSE stem

ArchiveNames ==
  {
    <<"r","e","l","e","a","s","e","_","1",".","0",".","r","a","r">>,
    <<"r","e","l","e","a","s","e","_","1",".","0",".","p","a","r","t","1",".","r","a","r">>,
    <<"R","e","l","e","a","s","e","_","2",".","7","Z">>,
    <<"n","o","t","e","s",".","r","a","r">>,
    <<"r","e","l","e","a","s","e","_",".","r","a","r">>
  }

EnvValues == {"unset", "", "1"}

\* the folder of 16 hex digits an archive holds
TitleFolder == <<"0","1","0","0","A","B","C","D","0","0","0","0","1","0","0","0">>

InitRar ==
  /\ keep_tmp_env \in EnvValues
  /\ archives \in UNION {[1..n -> ArchiveNames] : n \in 1..MaxTasks}
  /\ release_version = <<>>
  /\ tmpdirs = {}
  /\ tmpdir = 0
  /\ made = 0
  /\ cleanup = "none"
  /\ packs = {}
  /\ pc = "match"
  /\ EngineIdle
  /\ ExtractIdle
  /\ Fl4shIdle
  /\ WalkIdle
  /\ PatchIdle
  /\ LookupIdle

rarFrame ==
  <<engineVars, extractVars, fl4shVars, walkVars, patchVars, lookupVars>>

\* lines 158-172: the release name is matched; a name that does not match
\* ends the call, for the others mkdtemp makes a new folder
MatchRelease ==
  /\ pc = "match"
  /\ archives # <<>>
  /\ cleanup' = "none"
  /\ IF ReleaseVersion(Head(archives)) = <<>>
       THEN /\ pc' = "returned"
            /\ tmpdir' = 0
            /\ UNCHANGED <<release_version, tmpdirs, made>>
       ELSE /\ release_version' = ReleaseVersion(Head(archives))
            /\ made' = made + 1
            /\ tmpdir' = made + 1
            /\ tmpdirs' = tmpdirs \cup {made + 1}
            /\ pc' = "extract"
  /\ UNCHANGED <<keep_tmp_env, archives, packs, rarFrame>>

\* lines 174-179: extract_archive_headless succeeds or not
ExtractArchive ==
  /\ pc = "extract"
  /\ \E ok \in BOOLEAN : pc' = IF ok THEN "find_title" ELSE "finally"
  /\ UNCHANGED <<keep_tmp_env, archives, release_version, tmpdirs, tmpdir, made,
                 cleanup, packs, rarFrame>>

\* lines 181-195: find_title_path finds a TitleID folder or not
FindTitlePath ==
  /\ pc = "find_title"
  /\ \E title_found \in BOOLEAN : pc' = IF title_found THEN "copy" ELSE "finally"
  /\ UNCHANGED <<keep_tmp_env, archives, release_version, tmpdirs, tmpdir, made,
                 cleanup, packs, rarFrame>>

\* lines 197-205: shutil.copytree copies the folder, or raises and is caught
CopyTitle ==
  /\ pc = "copy"
  /\ \E ok \in BOOLEAN :
       packs' = IF ok
                  THEN packs \cup {<<release_version, TitleFolder>>}
                  ELSE packs
  /\ pc' = "finally"
  /\ UNCHANGED <<keep_tmp_env, archives, release_version, tmpdirs, tmpdir, made,
                 cleanup, rarFrame>>

\* lines 207-214: the finally clause; shutil.rmtree removes the folder, or
\* raises and the exception is dropped
Finally ==
  /\ pc = "finally"
  /\ IF KEEP_TMP(keep_tmp_env)
       THEN cleanup' = "kept" /\ UNCHANGED tmpdirs
       ELSE \E ok \in BOOLEAN :
              IF ok
                THEN cleanup' = "removed" /\ tmpdirs' = tmpdirs \ {tmpdir}
                ELSE cleanup' = "rmtree_failed" /\ UNCHANGED tmpdirs
  /\ pc' = "returned"
  /\ UNCHANGED <<keep_tmp_env, archives, release_version, tmpdir, made, packs,
                 rarFrame>>

\* for relpath in tasks: the next archive, if there is one
NextArchive ==
  /\ pc = "returned"
  /\ archives' = Tail(archives)
  /\ pc' = IF Tail(archives) = <<>> THEN "processed" ELSE "match"
  /\ UNCHANGED <<keep_tmp_env, release_version, tmpdirs, tmpdir, made, cleanup,
                 packs, rarFrame>>

NextRar ==
  \/ MatchRelease
  \/ ExtractArchive
  \/ FindTitlePath
  \/ CopyTitle
  \/ Finally
  \/ NextArchive

SpecRar == InitRar /\ [][NextRar]_vars

\* ------------------------------------------------------------------------
\* Vocabulary of the properties

\* first character uppercase, the rest lowercase
Capitalized(w) ==
  IF w = <<>> THEN <<>> ELSE <<UpperChar(w[1])>> \o Lower(Tail(w))

EndsWithMarker(w) == w # <<>> /\ w[Len(w)] \in subtitle_markers

IsFiller(w) == Lower(w) \in lowercase_exceptions

IsAcronym(w) == Upper(w) \in ACRONYMS

\* the separators of compound numerals that occur in w
SeparatorsIn(w) == {c \in {"&", "+", "|"} : Contains(w, c)}

\* the pieces of w around its separator, when it has one kind of separator
PiecesOf(w) == Split(w, CHOOSE c \in SeparatorsIn(w) : TRUE)

\* two or more non-empty Roman numerals joined by one kind of separator
IsCompoundRoman(w) ==
  /\ Cardinality(SeparatorsIn(w)) = 1
  /\ \A p \in 1..Len(PiecesOf(w)) :
       PiecesOf(w)[p] # <<>> /\ ROMAN_NUMERAL_PATTERN(PiecesOf(w)[p])

\* an acronym occurs in w as a proper substring
HasAcronymInside(w) ==
  \E a \in 1..Len(w) : \E b \in a..Len(w) :
    /\ b - a + 1 < Len(w)
    /\ SubSeq(Upper(w), a, b) \in ACRONYMS

\* the words of the finished title
Finished == pc = "done"

\* ------------------------------------------------------------------------
\* Properties

\* C1: title-casing is idempotent on sanitized input: applying
\* title_case_preserve_numbers to the title clean_title produced returns
\* that title unchanged.
C1_Idempotent ==
  Finished => title_case_preserve_numbers(output) = output

\* a three-word title with a lowercased filler in the middle, whose case
\* the title caser changed
C1_Witness ==
  /\ Finished
  /\ Len(result) = 3
  /\ result[2] \in lowercase_exceptions
  /\ output # name

C3_SubtitleCapitalized ==
  Finished =>
    \A i \in 2..Len(words) :
      (IsFiller(words[i]) /\ EndsWithMarker(words[i - 1]))
        => result[i] = Capitalized(words[i])

\* "game: The hdr": the filler in the middle follows "game:"
C3_Witness ==
  /\ Finished
  /\ Len(words) = 3
  /\ EndsWithMarker(words[1])
  /\ IsFiller(words[2])
  /\ result[2] = Capitalized(words[2])

\* C4: a standalone word that is an acronym in any letter case is output as
\* the uppercase acronym at every position; a markerless word that only
\* contains an acronym as a proper substring (and is no numeral) is rendered
\* as a plain capitalized word.
C4_AcronymPreserved ==
  Finished =>
    \A i \in 1..Len(words) :
      /\ IsAcronym(words[i]) => result[i] = Upper(words[i])
      /\ (/\ HasAcronymInside(words[i])
          /\ ~IsAcronym(words[i])
          /\ ~ContainsMarker(words[i])
          /\ SeparatorsIn(words[i]) = {}
          /\ ~ROMAN_NUMERAL_PATTERN(words[i]))
           => result[i] = Capitalized(words[i])

\* acronyms not written in uppercase first and last, and between them a
\* word with an acronym inside
C4_Witness ==
  /\ Finished
  /\ Len(words) = 3
  /\ IsAcronym(words[1]) /\ words[1] # Upper(words[1])
  /\ IsAcronym(words[3]) /\ words[3] # Upper(words[3])
  /\ HasAcronymInside(words[2]) /\ ~IsAcronym(words[2])
  /\ result[2] = Capitalized(words[2])

\* C5: a word that as a whole matches the Roman numeral pattern, in any
\* letter case, is output fully uppercase at every position.
C5_RomanUppercase ==
  Finished =>
    \A i \in 1..Len(words) :
      ROMAN_NUMERAL_PATTERN(words[i]) => result[i] = Upper(words[i])

\* lowercase Roman numerals first, in the middle and last
C5_Witness ==
  /\ Finished
  /\ Len(words) = 3
  /\ \A i \in 1..3 :
       ROMAN_NUMERAL_PATTERN(words[i]) /\ words[i] # Upper(words[i])

\* C6 as stated: a word in the middle with one kind of separator is output
\* with every piece uppercased when all its pieces are non-empty Roman
\* numerals, and as capitalize_hyphenated renders the word when some piece
\* is not a Roman numeral.
C6_AsStated ==
  Finished =>
    \A i \in 2..(Len(words) - 1) :
      Cardinality(SeparatorsIn(words[i])) = 1 =>
        /\ IsCompoundRoman(words[i]) => result[i] = Upper(words[i])
        /\ (\E p \in 1..Len(PiecesOf(words[i])) :
              ~ROMAN_NUMERAL_PATTERN(PiecesOf(words[i])[p]))
             => result[i] = capitalize_hyphenated(words[i])

\* C6: a word in the middle with one kind of separator is output with every
\* piece uppercased when all its pieces are non-empty Roman numerals; when
\* some piece is not a Roman numeral and the word has no subtitle marker,
\* it is output as capitalize_hyphenated renders it.
C6_CompoundRoman ==
  Finished =>
    \A i \in 2..(Len(words) - 1) :
      Cardinality(SeparatorsIn(words[i])) = 1 =>
        /\ IsCompoundRoman(words[i]) => result[i] = Upper(words[i])
        /\ (/\ \E p \in 1..Len(PiecesOf(words[i])) :
                 ~ROMAN_NUMERAL_PATTERN(PiecesOf(words[i])[p])
            /\ ~ContainsMarker(words[i]))
             => result[i] = capitalize_hyphenated(words[i])

\* "hdr i&ii hdr": a lowercase compound numeral in the middle
C6_Witness ==
  /\ Finished
  /\ Len(words) = 3
  /\ IsCompoundRoman(words[2])
  /\ words[2] # Upper(words[2])

\* C7: the first and the last word of the title are each hyphen-piece of
\* the raw word rendered by capitalize_special, compound Roman numerals
\* included.
C7_OverrideFullRule ==
  (Finished /\ words # <<>>) =>
    /\ result[1] = CapitalizeSegment(words[1])
    /\ result[Len(words)] = CapitalizeSegment(words[Len(words)])

\* C8: in a non-empty title neither the first nor the last word is a
\* lowercase filler word.
C8_BoundaryNotFiller ==
  (Finished /\ output # <<>>) =>
    LET out == SplitWs(output)
    IN  /\ out[1] \notin lowercase_exceptions
        /\ out[Len(out)] \notin lowercase_exceptions

\* a title of one word that is a lowercase filler
C8_Witness ==
  /\ Finished
  /\ Len(words) = 1
  /\ words[1] \in lowercase_exceptions

\* the acronym in uppercase
ShapeAcronym(w) == w \in ACRONYMS

\* a Roman numeral in uppercase
ShapeRoman(w) == w # <<>> /\ ROMAN_NUMERAL_PATTERN(w) /\ w = Upper(w)

\* a compound Roman numeral, every piece in uppercase
ShapeCompound(w) ==
  /\ \E c \in SeparatorsIn(w) :
       \A p \in 1..Len(Split(w, c)) : ROMAN_NUMERAL_PATTERN(Split(w, c)[p])
  /\ w = Upper(w)

\* every hyphen-separated piece capitalized
ShapeHyphenCapitalized(w) ==
  \A p \in 1..Len(Split(w, "-")) :
    Split(w, "-")[p] = Capitalized(Split(w, "-")[p])

\* a filler word in lowercase
ShapeFiller(w) == w \in lowercase_exceptions

WordShape(w) ==
  \/ ShapeAcronym(w)
  \/ ShapeRoman(w)
  \/ ShapeCompound(w)
  \/ ShapeHyphenCapitalized(w)
  \/ ShapeFiller(w)

C10_Total ==
  /\ pc # "raised"
  /\ (pc = "scan") => idx <= Len(words)
  /\ (pc # "start" /\ raw = <<>>) => name = <<>>
  /\ (Finished /\ name = <<>>) => output = <<>>

\* a finished run on a raw name made only of markers and separators
C10_Witness ==
  /\ Finished
  /\ raw # <<>>
  /\ \A i \in 1..Len(raw) : raw[i] \in {"-", ":", "&"}

\* ------------------------------------------------------------------------
\* Properties of sanitize_name

Sanitized == pc = "sanitized"

\* characters str.isspace() accepts
SpaceChars == {" ", "TAB", "NBSP"}

WhitespaceFree(s) == \A i \in 1..Len(s) : s[i] \notin SpaceChars

\* the characters sanitize_name removes wherever they stand
QuoteChars == {"'", "RSQUO", "BACKTICK", "DQUOTE"}

\* s is made of ASCII characters that are not removed quotes
KeptAsIs(s) ==
  \A i \in 1..Len(s) : s[i] \notin NonAscii /\ s[i] \notin QuoteChars

\* s = a + k spaces + '-' + m spaces + b, a being the first i characters
HyphenJoined(s, i, k, m) ==
  /\ i + k + 1 + m <= Len(s)
  /\ SubSeq(s, i + 1, i + k) = Rep(" ", k)
  /\ s[i + k + 1] = "-"
  /\ SubSeq(s, i + k + 2, i + k + 1 + m) = Rep(" ", m)
  /\ WhitespaceFree(SubSeq(s, 1, i))
  /\ WhitespaceFree(SubSeq(s, i + k + 2 + m, Len(s)))

\* C11 as stated: for all whitespace-free a and b and all k, m >= 1,
\* sanitize(a + k spaces + '-' + m spaces + b) is a + ' ' + b
C11_AsStated ==
  Sanitized =>
    \A i \in 0..Len(raw) : \A k \in 1..Len(raw) : \A m \in 1..Len(raw) :
      HyphenJoined(raw, i, k, m) =>
        name = SubSeq(raw, 1, i) \o <<" ">>
                 \o SubSeq(raw, i + k + 2 + m, Len(raw))

\* C11: for all non-empty whitespace-free a and b made of ASCII characters
\* other than the removed quotes, and all k, m >= 1,
\* sanitize(a + k spaces + '-' + m spaces + b) is a + ' ' + b
C11_HyphenMerge ==
  Sanitized =>
    \A i \in 1..Len(raw) : \A k \in 1..Len(raw) : \A m \in 1..Len(raw) :
      LET a == SubSeq(raw, 1, i)
          b == SubSeq(raw, i + k + 2 + m, Len(raw))
      IN  (HyphenJoined(raw, i, k, m) /\ b # <<>> /\ KeptAsIs(a) /\ KeptAsIs(b))
            => name = a \o <<" ">> \o b

\* 'a  -  a', two spaces on each side of the hyphen, became 'a a'
C11_Witness ==
  /\ Sanitized
  /\ raw = <<"a", " ", " ", "-", " ", " ", "a">>
  /\ name = <<"a", " ", "a">>

IsLetter(c) ==
  \E i \in 1..26 : LowerLetters[i] = c \/ UpperLetters[i] = c

RECURSIVE FoldedLetters(_)
\* the letters of s in order, an accented letter counted as its base letter
FoldedLetters(s) ==
  IF s = <<>> THEN <<>>
  ELSE (IF Head(s) = "E_ACUTE" THEN <<"e">>
        ELSE IF IsLetter(Head(s)) THEN <<Head(s)>>
        ELSE <<>>) \o FoldedLetters(Tail(s))

\* C12: the output of sanitize is ASCII, has no apostrophe, backtick or
\* double quote, no leading or trailing whitespace and no two adjacent
\* whitespace characters; its letters are those of the input with every
\* accented letter replaced by its base letter, and every character
\* without ASCII decomposition is gone
C12_SanitizedShape ==
  Sanitized =>
    /\ \A i \in 1..Len(name) :
         name[i] \notin NonAscii /\ name[i] \notin {"'", "BACKTICK", "DQUOTE"}
    /\ name # <<>> =>
         name[1] \notin SpaceChars /\ name[Len(name)] \notin SpaceChars
    /\ \A i \in 1..(Len(name) - 1) :
         ~(name[i] \in SpaceChars /\ name[i + 1] \in SpaceChars)
    /\ SelectSeq(name, IsLetter) = FoldedLetters(raw)

\* an accented letter, a dash without decomposition and a quote went in;
\* the base letter alone came out
C12_Witness ==
  /\ Sanitized
  /\ raw = <<"E_ACUTE", "EN_DASH", "'">>
  /\ name = <<"e">>

\* ------------------------------------------------------------------------
\* Properties of the pipeline and of the scan, continued

\* the words of the raw name, before sanitize_name
RawWords == SplitWs(raw)

\* C13: in the full pipeline each of the five subtitle markers, the en dash
\* and the em dash included, attached to the end of a word of the raw name
\* makes the filler word that follows it capitalized in the display name
C13_DashMarkers ==
  (Finished /\ Len(RawWords) = Len(result)) =>
    \A i \in 1..(Len(RawWords) - 1) :
      (EndsWithMarker(RawWords[i]) /\ IsFiller(RawWords[i + 1]))
        => result[i + 1] = Capitalized(RawWords[i + 1])

\* ------------------------------------------------------------------------
\* Properties of is_roman_numeral

Classified == pc = "classified"

\* one decimal digit d written with the letters of its rank
RomanDigit(d, one, five, ten) ==
  CASE d = 0 -> <<>>
    [] d \in 1..3 -> Rep(one, d)
    [] d = 4 -> <<one, five>>
    [] d = 5 -> <<five>>
    [] d \in 6..8 -> <<five>> \o Rep(one, d - 5)
    [] d = 9 -> <<one, ten>>

\* the canonical Roman numeral of n, 1 <= n <= 3999
ToRoman(n) ==
  Rep("M", n \div 1000)
    \o RomanDigit((n \div 100) % 10, "C", "D", "M")
    \o RomanDigit((n \div 10) % 10, "X", "L", "C")
    \o RomanDigit(n % 10, "I", "V", "X")

CanonicalNumerals == {ToRoman(n) : n \in 1..3999}

\* C14: the Roman-numeral test is false for the empty string
C14_EmptyIsPlain ==
  (Classified /\ raw = <<>>) => ~matched

\* C15: a non-empty token over the letters I, V, X, L, C, D, M (any case) is
\* accepted if and only if it is the canonical Roman numeral of some
\* integer between 1 and 3999
C15_ExactlyCanonical ==
  (Classified /\ raw # <<>>) =>
    (matched <=> Upper(raw) \in CanonicalNumerals)

\* ------------------------------------------------------------------------
\* Properties of the scan

C17_ForcedUntilEnd ==
  Finished =>
    \A i \in 1..Len(words) : \A j \in (i + 1)..Len(words) :
      ContainsMarker(words[i]) => result[j] \notin lowercase_exceptions

\* the characters re.split cuts a word at
InWordMarkers == {":", "~", "-"}

\* the segment of w that starts at position k: up to the next marker
SegmentAt(w, k) ==
  LET stops == {n \in k..Len(w) : w[n] \in subtitle_markers}
      last == IF stops = {} THEN Len(w)
              ELSE (CHOOSE n \in stops : \A o \in stops : n <= o) - 1
  IN  SubSeq(w, k, last)

\* C18: in every word position, a non-empty alphabetic segment directly
\* after a marker character of the same word is output with its first
\* letter uppercase, the marker being kept
C18_AfterMarkerCapital ==
  Finished =>
    \A i \in 1..Len(words) : \A k \in 2..Len(words[i]) :
      ( /\ words[i][k - 1] \in InWordMarkers
        /\ SegmentAt(words[i], k) # <<>>
        /\ \A n \in 1..Len(SegmentAt(words[i], k)) :
             IsLetter(SegmentAt(words[i], k)[n]) )
        => /\ Len(result[i]) = Len(words[i])
           /\ result[i][k - 1] = words[i][k - 1]
           /\ result[i][k] = UpperChar(words[i][k])

\* every character of s is ASCII
IsAscii(s) == \A i \in 1..Len(s) : s[i] \notin NonAscii

\* C19: title_case changes nothing but letter case: the output has as many
\* words as the input, and lowercased it is the lowercased input with its
\* whitespace runs replaced by single spaces; this for the sanitized name
\* the pipeline passes on and for the raw name itself when it is ASCII
C19_OnlyCase ==
  Finished =>
    /\ Len(result) = Len(words)
    /\ Len(SplitWs(output)) = Len(SplitWs(name))
    /\ Lower(output) = Lower(CollapseSpaces(name))
    /\ IsAscii(raw) =>
         LET out == title_case_preserve_numbers(raw)
         IN  /\ out # Raised
             /\ Len(SplitWs(out)) = Len(SplitWs(raw))
             /\ Lower(out) = Lower(CollapseSpaces(raw))

\* 'of-the hD re:zero' came out as 'Of-The HD Re:zero': three words, the
\* same characters, only the case changed
C19_Witness ==
  /\ Finished
  /\ name = <<"o","f","-","t","h","e"," ","h","D"," ","r","e",":","z","e","r","o">>
  /\ output = <<"O","f","-","T","h","e"," ","H","D"," ","R","e",":","z","e","r","o">>

\* C20: sanitize is idempotent, and its output never contains the sequence
\* space, hyphen, space
C20_Idempotent ==
  Sanitized =>
    /\ sanitize_name(name) = name
    /\ \A i \in 1..(Len(name) - 2) :
         SubSeq(name, i, i + 2) # <<" ", "-", " ">>

\* ------------------------------------------------------------------------
\* Properties of the name extractor

\* s ends with suffix
EndsWith(s, suffix) ==
  Len(s) >= Len(suffix) /\ SubSeq(s, Len(s) - Len(suffix) + 1, Len(s)) = suffix

\* C21: the relocation step turns a raw game name P + ", The" into
\* "The " + P and leaves every raw game name that does not end in ", The"
\* as it is.
C21_TrailingOnly ==
  [][Relocate =>
       IF EndsWith(raw_game, CommaThe)
         THEN raw_game' = <<"T","h","e"," ">> \o SubSeq(raw_game, 1, Len(raw_game) - Len(CommaThe))
         ELSE raw_game' = raw_game]_vars

\* the text between the first "[" of s and the first "]" after it
TagInside(s) ==
  LET i == CHOOSE n \in 1..Len(s) :
             /\ s[n] = "["
             /\ \E j \in (n + 1)..Len(s) : s[j] = "]"
             /\ \A q \in 1..(n - 1) : s[q] # "["
      j == CHOOSE n \in (i + 1)..Len(s) :
             s[n] = "]" /\ \A q \in (i + 1)..(n - 1) : s[q] # "]"
  IN  SubSeq(s, i + 1, j - 1)

\* the first of the segments that has a bracketed tag
FirstTagged(segments) ==
  segments[CHOOSE n \in 1..Len(segments) :
             HasTag(segments[n]) /\ \A q \in 1..(n - 1) : ~HasTag(segments[q])]

\* C22: when a segment after the game folder has a bracketed tag, the
\* country step appends " (" + the text inside the brackets + ")" to the raw
\* game name; when none has, the step appends nothing.
C22_CountryInsideBrackets ==
  [][DetectCountry =>
       IF \E n \in 2..Len(rel_parts) : HasTag(rel_parts[n])
         THEN raw_game' = raw_game \o <<" ", "(">>
                            \o TagInside(FirstTagged(Tail(rel_parts))) \o <<")">>
         ELSE raw_game' = raw_game]_vars

\* C23: for a file in <game>/Aspect Ratio/<ratio>/ every script derives the
\* raw mod name "Aspect Ratio " + <ratio>.
C23_AspectRatio ==
  [][(DeriveMod /\ Len(rel_parts) = 3 /\ rel_parts[2] = AspectRatio) =>
       (pc' = "prepare" /\ raw_mod' = AspectRatio \o <<" ">> \o rel_parts[3])]_vars

\* s ends in " v" followed by digits
EndsInVersion(s) ==
  \E i \in 1..(Len(s) - 2) :
    /\ s[i] = " "
    /\ s[i + 1] = "v"
    /\ \A n \in (i + 2)..Len(s) : s[n] \in Digits

\* C24: in format_repo3 and format_repo4, outside the aspect-ratio rule, the
\* raw mod name is "<parent> <last folder>" when the last folder ends in
\* " v<digits>" and the parent folder name alone for every other last folder.
C24_VersionSuffix ==
  [][(/\ DeriveMod
      /\ variant \in {"format_repo3", "format_repo4"}
      /\ Len(rel_parts) >= 2
      /\ ~ContainsStr(RelativePath(rel_parts), AspectRatio)) =>
       (/\ pc' = "prepare"
        /\ raw_mod' =
             IF EndsInVersion(rel_parts[Len(rel_parts)])
               THEN rel_parts[Len(rel_parts) - 1] \o <<" ">>
                      \o rel_parts[Len(rel_parts)]
               ELSE rel_parts[Len(rel_parts) - 1])]_vars

\* C25: get_game_name_and_mod_name never raises, whatever directory of the
\* walk it is given, a relative path of one segment included.
C25_NeverRaises ==
  (variant \in Scripts /\ Len(rel_parts) >= 1) => pc # "raised"

\* ------------------------------------------------------------------------
\* Properties of the Fl4sh9174 formatter

\* C26: whenever a game folder is removed, every .pchtxt file under it has
\* been moved into formatted.
C26_NothingDestroyed ==
  [][RemoveGameDir =>
       \A f \in tree : f.game = game_dir => ~IsPchtxt(f.file)]_vars

\* ------------------------------------------------------------------------
\* Properties of the copying formatters

\* C27: no file under formatted is taken as a copy source, in any run of
\* any of the formatters.
C27_NoOutputAsSource ==
  [][VisitDir =>
       \A dir \in Head(to_walk) : \A f \in CopySources(formatter, dir, fs) :
         f.dir[1] # FormattedName]_vars

\* ------------------------------------------------------------------------
\* Properties of the header patchers

\* C28: patching a file twice with the same game name and title ID leaves
\* the lines that patching it once left.
C28_PatchIdempotent ==
  patches = 2 => lines = patched_once

\* ------------------------------------------------------------------------
\* Properties of the title ID lookup

\* the lines of content that are @nsobid lines
NsobidLinesOf(content) ==
  {i \in 1..Len(content) : StartsWith(Strip(content[i]), NsobidPrefix)}

\* the build ID as the file has it on its first @nsobid line
WrittenBuildId(content) ==
  LET i == CHOOSE n \in NsobidLinesOf(content) :
             \A j \in NsobidLinesOf(content) : n <= j
      line == Strip(content[i])
  IN  SubSeq(line, Len(NsobidPrefix) + 1, Len(line))

\* the entries whose build ID starts with build, letter case aside
PrefixedEntries(build, entries) ==
  {i \in 1..Len(entries) :
     /\ entries[i].buildId # NoId
     /\ StartsWith(Upper(entries[i].buildId), Upper(build))}

\* those of them that are of type 1
PrefixedPrograms(build, entries) ==
  {i \in PrefixedEntries(build, entries) : entries[i].type = 1}

\* the file has a build ID and an entry of cnmts.json answers to it
BuildIdMatches ==
  /\ NsobidLinesOf(lines) # {}
  /\ PrefixedEntries(WrittenBuildId(lines), cnmts_db) # {}

\* the same, for a build ID that is not empty and entries of type 1
ProgramBuildIdMatches ==
  /\ NsobidLinesOf(lines) # {}
  /\ WrittenBuildId(lines) # <<>>
  /\ PrefixedPrograms(WrittenBuildId(lines), cnmts_db) # {}

\* some header line of content ends in [id]
HeaderHasId(content, id) ==
  \E i \in 1..Len(content) :
    /\ StartsWith(content[i], <<"#">>)
    /\ HasSuffix(content[i], <<"[">> \o id \o <<"]", "NL">>)

\* the title ID of the first entry of type 1 that answers to the build ID
\* of the file
ProgramTitleId ==
  Upper(cnmts_db[CHOOSE i \in PrefixedPrograms(WrittenBuildId(lines), cnmts_db) :
                   \A j \in PrefixedPrograms(WrittenBuildId(lines), cnmts_db) :
                     i <= j].title_id)

\* C29 as stated: the name lookup is consulted only if the file has no
\* @nsobid line or its build ID is a prefix of no build ID of cnmts.json,
\* and when the build ID matches the title ID written is the one found
\* through it.
C29_AsStated ==
  [][/\ LookupName => ~BuildIdMatches
     /\ (WriteTitleId /\ BuildIdMatches) =>
          (method = "build_id" /\ pc' = "patched" /\ HeaderHasId(lines', header_id))]_vars

\* C29: the name lookup is consulted only if the file has no @nsobid line
\* with a build ID that is not empty, or that build ID is, letter case aside,
\* a prefix of no build ID of a type 1 content entry of cnmts.json; when it
\* is the prefix of one, the title ID written is that of the first such
\* entry, in upper case.
C29_BuildIdFirst ==
  [][/\ LookupName => ~ProgramBuildIdMatches
     /\ (WriteTitleId /\ ProgramBuildIdMatches) =>
          /\ method = "build_id"
          /\ header_id = ProgramTitleId
          /\ pc' = "patched"
          /\ HeaderHasId(lines', ProgramTitleId)]_vars

\* a file patched with the title ID of the name lookup after its build ID
\* was looked up in vain
C29_Witness ==
  /\ pc = "patched"
  /\ method = "name"
  /\ NsobidLinesOf(lines) # {}
  /\ WrittenBuildId(lines) # <<>>
  /\ HeaderHasId(lines, header_id)

\* ------------------------------------------------------------------------
\* Properties of process_rar

\* process_rar has returned for an archive with a valid release name
ReturnedForRelease == pc = "returned" /\ tmpdir # 0

\* C30 as stated: after process_rar returns for an archive with a valid
\* release name, its temp folder is gone when KEEP_TMP is unset and is
\* still there when KEEP_TMP is set.
C30_AsStated ==
  ReturnedForRelease =>
    IF keep_tmp_env = "unset" THEN tmpdir \notin tmpdirs ELSE tmpdir \in tmpdirs

\* C30: the finally clause is run on every path of process_rar past
\* mkdtemp; after it the temp folder is still there when KEEP_TMP is set to
\* a value that is not empty, and when KEEP_TMP is unset or empty it is gone
\* unless shutil.rmtree raised, which the clause ignores.
C30_CleanedUp ==
  ReturnedForRelease =>
    /\ cleanup \in {"kept", "removed", "rmtree_failed"}
    /\ cleanup = "kept" <=> keep_tmp_env \notin {"unset", ""}
    /\ cleanup = "kept" => tmpdir \in tmpdirs
    /\ cleanup = "removed" => tmpdir \notin tmpdirs
    /\ cleanup = "rmtree_failed" => tmpdir \in tmpdirs

\* a second archive has been processed and its temp folder removed while
\* the run goes on
C30_Witness ==
  /\ ReturnedForRelease
  /\ cleanup = "removed"
  /\ made = 2
  /\ packs # {}
====
